---- MODULE Spec2Model ----
(***************************************************************************)
(* Verification model of volconv (pydcm/dicom.py, pydcm/pgipl.py,          *)
(* pydcm/orient.py, pydcm/match.py, nifti/nii.py).  These state machines   *)
(* share this module:                                                      *)
(*                                                                         *)
(*   - DicomSequenceReader.scanAll  (variables opts .. log)                *)
(*   - DicomReader.readHeader / readFields over a byte file (rd* vars)     *)
(*   - GiplFile.write / GiplFile.read over a 256-byte header (gp* vars)    *)
(*                                                                         *)
(* Each specification runs one machine and keeps the others idle.          *)
(***************************************************************************)
EXTENDS Integers, Sequences, FiniteSets, TLC

VARIABLES
    \* ---- scanAll ----
    opts,           \* constructor options of DicomSequenceReader
    files,          \* self.files: the input list (one record per file)
    pc,             \* position in scanAll
    n,              \* index of the current file (0-based, starts at -1)
    repeat,         \* re-visit flag of the mosaic code
    d,              \* what the local name d is bound to
    visited,        \* visited[path]: mosaic visit count
    orientations,   \* orientations[study,name][ser]: (orientt, imtype) -> suffix
    warnings,       \* the local list warnings (reasons, in order)
    errcount,       \* errcount
    errors,         \* errors[reason]: list of paths
    studies,        \* self.studies[study,name]: sub-series key -> Entity
    todo,           \* keys the current post-scan loop has still to visit
    log,            \* history: one record per loop iteration (not program state)
    recon,          \* history: per Entity, what the time reconstruction did
    \* ---- DicomReader ----
    rdFile,         \* the bytes of the file behind self.fh
    rdAcr,          \* self.acr
    rdFlat,         \* self.flat
    rdPc,           \* position in readHeader
    rdPos,          \* self.fh.tell()
    rdEnd,          \* self.end
    rdStartb,       \* readFields: startb      (innermost call)
    rdMaxbytes,     \* readFields: maxbytes    (innermost call)
    rdImplicit,     \* readFields: implicit    (innermost call)
    rdSwEndian,     \* readFields: switch_endian
    rdSwImplicit,   \* readFields: switch_implicit
    rdSwitchAt,     \* readFields: switch_at
    rdVals,         \* readFields: myvals; self.vals once readHeader is over
    rdVf,           \* readFields: vf, the value of the last element read
    rdStack,        \* the suspended outer calls of readFields
    rdErr,          \* the exception that left readHeader
    rdTrace,        \* history: the elements parsed, with the syntax used
    \* ---- GiplFile ----
    gpW,            \* the GiplFile object opened for writing
    gpFile,         \* the bytes of the file
    gpPc,           \* which call comes next
    gpR,            \* the GiplFile object opened for reading
    gpWErr,         \* the exception that left write
    gpRErr,         \* the exception that left read
    \* ---- OrientedImage ----
    im,             \* the OrientedImage object
    imOp,           \* the method called last
    imRet,          \* <<new, what reOrient(new) did>> of the last reOrient
    \* ---- NameMatcher ----
    mtConf,         \* the options of the configuration file's one section
    mtDcm,          \* the series of dcm.studies handed to findMatches
    mtPatterns,     \* self.patterns[alias]
    mtMatches,      \* self.matches
    mtErr,          \* the exception that left the constructor or findMatches
    mtPc,           \* which call comes next
    \* ---- NiiWriter ----
    niW,            \* the NiiWriter object
    niFile,         \* the bytes of the file behind self.fh
    niPc,           \* which call comes next
    \* ---- DicomReader.getCSA ----
    csSrc,          \* history: the fields the blob was laid out from
    csBlob,         \* vf.d: the bytes of the CSA element (0029,1010)
    csData,         \* self.csadata["image"]
    csOut,          \* what getCSA returned
    csErr,          \* the exception that left getCSA
    csPc            \* which call comes next

scanVars == <<opts, files, pc, n, repeat, d, visited, orientations, warnings,
              errcount, errors, studies, todo, log, recon>>
readVars == <<rdFile, rdAcr, rdFlat, rdPc, rdPos, rdEnd, rdStartb, rdMaxbytes,
              rdImplicit, rdSwEndian, rdSwImplicit, rdSwitchAt, rdVals, rdVf,
              rdStack, rdErr, rdTrace>>
giplVars == <<gpW, gpFile, gpPc, gpR, gpWErr, gpRErr>>
imgVars == <<im, imOp, imRet>>
matchVars == <<mtConf, mtDcm, mtPatterns, mtMatches, mtErr, mtPc>>
niiVars == <<niW, niFile, niPc>>
csaVars == <<csSrc, csBlob, csData, csOut, csErr, csPc>>
libVars == <<imgVars, matchVars, niiVars, csaVars>>
vars == <<scanVars, readVars, giplVars, libVars>>

(***************************************************************************)
(* Generic helpers                                                         *)
(***************************************************************************)
Abs(x) == IF x < 0 THEN -x ELSE x

Max(S) == CHOOSE x \in S : \A y \in S : y <= x

Min(S) == CHOOSE x \in S : \A y \in S : x <= y

Range(s) == {s[i] : i \in DOMAIN s}

\* all sequences over S of length 0..k
SeqsUpTo(S, k) == UNION {[1..m -> S] : m \in 0..k}

\* all orders in which a Python 2 dict may iterate over the key set S
RECURSIVE Orders(_)
Orders(S) ==
    IF S = {} THEN {<<>>}
    ELSE UNION {{<<x>> \o q : q \in Orders(S \ {x})} : x \in S}

\* Python dict update d[k] = v
Put(f, k, v) == (k :> v) @@ f

\* Python del d[k]
Del(f, k) == [x \in (DOMAIN f) \ {k} |-> f[x]]

Empty == <<>>

(***************************************************************************)
(* Orientation vectors.                                                    *)
(*                                                                         *)
(* A DICOM orientation (0020,0037) is six floats (ix iy iz jx jy jz).  The *)
(* model draws the two columns from one-parameter families of unit         *)
(* vectors: a signed axis rotated by a tilt of t units (AngleUnit = 0.05   *)
(* degree, |t| far below 45 degrees) inside a fixed plane:                 *)
(*    i column:  x: (cos t,  sin t, 0)     y: (-sin t, cos t, 0)           *)
(*    j column:  y: (0, cos t, sin t)     -z: (0, sin t, -cos t)           *)
(*               x: (cos t, 0, sin t)                                      *)
(* Each float component is represented by an integer that preserves the    *)
(* order and equality of the floats in the family: cos t by Big - |t|,     *)
(* sin t by t, 0 by 0 (cos is strictly decreasing in |t|, sin strictly     *)
(* increasing, and |sin t| < cos t).                                       *)
(***************************************************************************)
Big == 100000

RightAngle == 1800      \* 90 degrees in units of 0.05 degree

CosKey(t) == Big - Abs(t)

ICol(axis, t) ==
    IF axis = "x" THEN <<CosKey(t), t, 0>> ELSE <<-t, CosKey(t), 0>>

JCol(axis, t) ==
    IF axis = "y" THEN <<0, CosKey(t), t>>
    ELSE IF axis = "-z" THEN <<0, t, -CosKey(t)>>
    ELSE <<CosKey(t), 0, t>>

\* the 6-tuple orientt, as order-preserving keys of its float components
Vec(o) == ICol(o.ia, o.it) \o JCol(o.ja, o.jt)

Orient(ia, it, ja, jt) == [ia |-> ia, it |-> it, ja |-> ja, jt |-> jt]

\* the orientation (1.0, 0.0, 0.0, 0.0, 1.0, 0.0)
Identity == Orient("x", 0, "y", 0)

\* dicom.py lowest(t1,t2): first differing component decides, t1 on a tie
RECURSIVE LowestFrom(_, _, _)
LowestFrom(t1, t2, k) ==
    IF k > 6 THEN 1
    ELSE IF Vec(t1)[k] < Vec(t2)[k] THEN 1
    ELSE IF Vec(t1)[k] > Vec(t2)[k] THEN 2
    ELSE LowestFrom(t1, t2, k + 1)

lowest(t1, t2) == IF LowestFrom(t1, t2, 1) = 1 THEN t1 ELSE t2

\* dicom.py angle(o1,o2): the angles between the i columns and between the
\* j columns, in units of 0.05 degree.  Two columns of one family differ by
\* the difference of their tilts; columns on different axes are at a right
\* angle (up to the tilts, which are far smaller than any threshold used).
angle(o1, o2) ==
    << IF o1.ia = o2.ia THEN Abs(o1.it - o2.it) ELSE RightAngle,
       IF o1.ja = o2.ja THEN Abs(o1.jt - o2.jt) ELSE RightAngle >>

\* orient.py simplify: the unit vector along the component of largest
\* magnitude (the first one on a tie), with that component's sign
Largest(v) == CHOOSE k \in 1..3 :
                 /\ \A m \in 1..3 : Abs(v[m]) <= Abs(v[k])
                 /\ \A m \in 1..(k - 1) : Abs(v[m]) < Abs(v[k])

simplify(v) == [k \in 1..3 |-> IF k # Largest(v) THEN 0
                               ELSE IF v[k] >= 0 THEN 1 ELSE -1]

\* a findOrient that calls every tilted plane oblique
findOrientExact(o) ==
    IF o.it # 0 \/ o.jt # 0 THEN "obl"
    ELSE IF o.ia = "x" /\ o.ja = "y" THEN "axi"
    ELSE IF o.ia = "y" /\ o.ja = "-z" THEN "sag"
    ELSE IF o.ia = "x" /\ o.ja = "-z" THEN "cor"
    ELSE "obl"

\* orient.py findOrient(style='short') of OrientedImage(None, res, [orientt])
findOrientShort(o) ==
    IF simplify(ICol(o.ia, o.it)) = <<1, 0, 0>> /\ simplify(JCol(o.ja, o.jt)) = <<0, 1, 0>>
    THEN "axi"
    ELSE IF simplify(ICol(o.ia, o.it)) = <<0, 1, 0>>
            /\ simplify(JCol(o.ja, o.jt)) = <<0, 0, -1>>
    THEN "sag"
    ELSE IF simplify(ICol(o.ia, o.it)) = <<1, 0, 0>>
            /\ simplify(JCol(o.ja, o.jt)) = <<0, 0, -1>>
    THEN "cor"
    ELSE "obl"

(***************************************************************************)
(* Input files of scanAll.                                                 *)
(*                                                                         *)
(* A file is the tag map readHeader returns for it (or the reason it       *)
(* fails with), reduced to what scanAll reads:                             *)
(*   path        the entry of self.files (two entries may be one path)     *)
(*   hdr         "" when readHeader succeeds, else the DicomError reason   *)
(*   desc        xdesc: (0008,103e), else (0018,1030), (0008,1030)         *)
(*   descOK      the description passes seqinc / seqexc                    *)
(*   hasType     (0008,0008) present;  typeOK: passes typeinc / typeexc    *)
(*   type        (0008,0008) joined by "/"                                 *)
(*   imtype      third component of (0008,0008), lower-cased               *)
(*   tr, flip    float of (0018,0080), (0018,1314) (0.0 when absent)       *)
(*   ser, echo   (0020,0011), (0018,0086)                                  *)
(*   geom        both (0020,0032) and (0020,0037) present                  *)
(*   orient      (0020,0037);  slice: (0020,1041) / z of (0020,0032)       *)
(*   hasInst, inst          (0020,0013)                                    *)
(*   hasTemporal, tpos      (0020,0100)                                    *)
(*   hasReq      (0028,0010), (0028,0011), (0028,0100), (7fe0,0010)        *)
(*   hasPixSp, px           (0028,0030)                                    *)
(*   has88, spacing         (0018,0088);   has50, thick: (0018,0050)       *)
(*   hasADate, hasATime     (0008,0022), (0008,0032)                       *)
(*   nmos        NumberOfImagesInMosaic (0: the lookup gives [])           *)
(*   shape       (0028,0011) = (0028,0010), a square matrix                *)
(* Time keys and slice values are the integers whose decimal strings /     *)
(* floats the program holds.  Tag values are well formed (no ValueError    *)
(* from int() or float()); diff, bval, sar and phase are not modelled.     *)
(***************************************************************************)
BaseFile ==
    [path |-> 0, hdr |-> "", descOK |-> TRUE, hasType |-> TRUE, typeOK |-> TRUE,
     imtype |-> "m", ser |-> 1, echo |-> 1, geom |-> TRUE, orient |-> Identity,
     slice |-> 0, hasInst |-> TRUE, inst |-> 1, hasTemporal |-> FALSE, tpos |-> 0,
     hasReq |-> TRUE, hasPixSp |-> TRUE, px |-> 2, has88 |-> TRUE, spacing |-> 3,
     has50 |-> TRUE, thick |-> 4, hasADate |-> TRUE, hasATime |-> TRUE,
     nmos |-> 0, shape |-> 64, desc |-> "t1_mprage", type |-> "ORIGINAL/PRIMARY/M",
     tr |-> 2300, flip |-> 9]

\* DicomSequenceReader.__init__ defaults (thresholds in units of 0.05 degree)
DefaultOpts ==
    [splitorient |-> TRUE, roundorient |-> TRUE, roundorientthresh |-> 4,
     nsubseries |-> FALSE, stackunk |-> FALSE, sliceinst |-> FALSE,
     slice3d |-> FALSE, mosaic |-> 0]

\* values the local name d can hold besides a header
NoHeader == [hdr |-> "unbound"]

ExcObj == [hdr |-> "DicomError instance"]

Nil == [nil |-> TRUE]

MissingElement(tag) == "missing element (" \o tag \o "), skipping file"

WarnGeometry == "unknown geometry, using naive stacking"

WarnInstance == "missing instance number, assuming 1"

WarnResolution == "unknown resolution, assuming 1x1x1mm"

WarnMosaic == "mosiac is not standards-based, beware geometry"

\* math.ceil(math.sqrt(nmos))
CeilSqrt(k) == Min({r \in 0..k : r * r >= k})

Fail(reason, w, vis, rep) ==
    [err |-> reason, warns |-> w, vis |-> vis, rep |-> rep]

(***************************************************************************)
(* scanAll lines 796-1209: the inner try block.  Reads the tags of header  *)
(* h (the file at path f), ends either with every local the rest of the    *)
(* iteration needs, or with the DicomError raised (a KeyError is turned    *)
(* into "missing element").  The mosaic code updates visited and repeat    *)
(* before it reads the spacing tag.                                        *)
(***************************************************************************)
ExtractMosaic(h, f, o, w, vis, slice, orientt, nogeom, instance, time, itime, res) ==
    LET nmos == IF o.mosaic # 0 THEN o.mosaic ELSE h.nmos
        base == [err |-> "", ser |-> h.ser, echo |-> h.echo, imtype |-> h.imtype,
                 desc |-> h.desc, type |-> h.type, tr |-> h.tr, flip |-> h.flip,
                 instance |-> instance, time |-> time, itime |-> itime,
                 orientt |-> orientt, nogeom |-> nogeom, res |-> res]
    IN IF nmos = 0
       THEN base @@ [warns |-> w, vis |-> vis, rep |-> 0, slice |-> slice,
                     shape |-> h.shape, mosaicid |-> Nil]
       ELSE LET first == f \notin DOMAIN vis
                seen  == IF first THEN 0 ELSE vis[f]
                w2    == IF first THEN Append(w, WarnMosaic) ELSE w
                rep2  == IF seen + 1 < nmos THEN 1 ELSE 0
                vis2  == Put(vis, f, seen + 1)
                fac   == CeilSqrt(nmos)
            IN IF ~h.has88
               THEN Fail(MissingElement("0x0018,0x0088"), w2, vis2, rep2)
               ELSE base @@ [warns |-> w2, vis |-> vis2, rep |-> rep2,
                             slice |-> slice + h.spacing * seen,
                             shape |-> h.shape \div fac,
                             mosaicid |-> [n |-> seen, rpos |-> seen \div fac,
                                           cpos |-> seen % fac, nmos |-> nmos]]

\* an orientt that sliceinst leaves alone when the file has geometry tags
OrientOfGeometry(h, o, nogeom) == IF nogeom THEN Identity ELSE h.orient

\* scanAll lines 1014-1017
OrientOf(h, o, nogeom) == IF o.sliceinst \/ nogeom THEN Identity ELSE h.orient

ExtractGeometry(h, f, o, w, vis, nogeom) ==
    LET noSlice == IF o.slice3d THEN ~h.geom
                   ELSE IF o.sliceinst \/ nogeom THEN ~h.hasInst
                   ELSE FALSE
        slice == IF o.slice3d THEN h.slice
                 ELSE IF o.sliceinst \/ nogeom THEN h.inst
                 ELSE h.slice
        instance == IF h.hasInst THEN h.inst ELSE 1
        w2 == IF h.hasInst THEN w ELSE Append(w, WarnInstance)
        time == IF h.hasTemporal THEN h.tpos
                ELSE IF h.hasInst THEN h.inst ELSE 0
        itime == IF ~h.hasTemporal /\ h.hasInst THEN 1 ELSE 0
        res == IF h.hasPixSp /\ h.has88 THEN <<h.px, h.px, h.spacing>>
               ELSE IF h.hasPixSp /\ h.has50 THEN <<h.px, h.px, h.thick>>
               ELSE <<1, 1, 1>>
        w3 == IF (h.hasPixSp /\ h.has88) \/ (h.hasPixSp /\ h.has50) THEN w2
              ELSE Append(w2, WarnResolution)
        orientt == OrientOf(h, o, nogeom)
    IN IF noSlice
       THEN Fail(MissingElement(IF o.slice3d THEN "0x0020,0x0032" ELSE "0x0020,0x0013"),
                 w, vis, 0)
       ELSE IF ~h.hasReq
       THEN Fail(MissingElement("0x0028,0x0010"), w2, vis, 0)
       ELSE ExtractMosaic(h, f, o, w3, vis, slice, orientt, nogeom, instance,
                          time, itime, res)

Extract(h, f, o, vis) ==
    IF ~h.descOK
    THEN Fail("description didn't match include pattern, skipping file", <<>>, vis, 0)
    ELSE IF ~h.hasType
    THEN Fail(MissingElement("0x0008,0x0008"), <<>>, vis, 0)
    ELSE IF ~h.typeOK
    THEN Fail("type didn't match include value, skipping file", <<>>, vis, 0)
    ELSE IF ~h.geom /\ ~(o.stackunk \/ o.sliceinst)
    THEN Fail("no geometry, no --stack-unk, skipping file", <<>>, vis, 0)
    ELSE ExtractGeometry(h, f, o, IF h.geom THEN <<>> ELSE <<WarnGeometry>>,
                         vis, ~h.geom)

(***************************************************************************)
(* scanAll lines 1221-1283: orientation rounding.  order is the order in   *)
(* which the dict orientations[study,name][ser] yields its keys; a key is  *)
(* [o |-> orientation, t |-> image type].                                  *)
(***************************************************************************)
\* DicomError(reason, file), as the warnings list holds it
Warn(reason, f) == [err |-> reason, file |-> f]

WarnsOf(reasons, f) == [i \in DOMAIN reasons |-> Warn(reasons[i], f)]

OKey(o, t) == [o |-> o, t |-> t]

NoOrient == <<>>

WarnNearMiss == "orientation merge had near miss (< 2*threshold)"

WarnAmbiguous == "orientation merge slice assignment is ambiguous"

\* the loop body for a known orientation of the slice's image type
RoundCount(st, known, isClose, isNear, f) ==
    [close  |-> IF isClose THEN <<known>> ELSE st.close,
     nclose |-> st.nclose + (IF isClose THEN 1 ELSE 0),
     nnear  |-> st.nnear + (IF isNear THEN 1 ELSE 0),
     warns  |-> IF st.nnear + (IF isNear THEN 1 ELSE 0)
                   > st.nclose + (IF isClose THEN 1 ELSE 0)
                THEN Append(st.warns, Warn(WarnNearMiss, f)) ELSE st.warns]

\* a match on either angle instead of both
RoundVisitEither(st, a, known, ximtype, thresh, f) ==
    IF known.t # ximtype THEN st
    ELSE RoundCount(st, known.o, a[1] < thresh \/ a[2] < thresh,
                    a[1] < thresh * 2 \/ a[2] < thresh * 2, f)

RoundVisit(st, a, known, ximtype, thresh, f) ==
    IF known.t # ximtype THEN st
    ELSE RoundCount(st, known.o, a[1] < thresh /\ a[2] < thresh,
                    a[1] < thresh * 2 /\ a[2] < thresh * 2, f)

RECURSIVE RoundLoop(_, _, _, _, _, _)
RoundLoop(order, orientt, ximtype, thresh, st, f) ==
    IF order = <<>> THEN st
    ELSE RoundLoop(Tail(order), orientt, ximtype, thresh,
                   RoundVisit(st, angle(orientt, Head(order).o), Head(order),
                              ximtype, thresh, f), f)

\* lines 1268-1283: the merge into close_enough (old), low = lowest(old, new)
RoundMerge(old, low, idx, orientt, ximtype, w) ==
    IF old = orientt
    THEN [orientt |-> orientt, idx |-> idx, warns |-> w,
          merged |-> TRUE, renamed |-> FALSE, old |-> old]
    ELSE [orientt |-> low,
          idx |-> Put(Del(idx, OKey(old, ximtype)), OKey(low, ximtype),
                      idx[OKey(old, ximtype)]),
          warns |-> w, merged |-> TRUE, renamed |-> TRUE, old |-> old]

Rounded(st, idx, orientt, ximtype, f) ==
    IF st.close = NoOrient
    THEN [orientt |-> orientt, idx |-> idx, warns |-> st.warns,
          merged |-> FALSE, renamed |-> FALSE, old |-> orientt]
    ELSE RoundMerge(st.close[1], lowest(st.close[1], orientt), idx, orientt, ximtype,
                    IF st.nclose > 1 THEN Append(st.warns, Warn(WarnAmbiguous, f))
                    ELSE st.warns)

\* the result of the rounding block: the (possibly lowered) orientt, the
\* updated index, the warnings, and old_exact when a known orientation was
\* renamed
RoundOrient(order, idx, orientt, ximtype, o, w, f) ==
    IF ~o.roundorient
    THEN [orientt |-> orientt, idx |-> idx, warns |-> w,
          merged |-> FALSE, renamed |-> FALSE, old |-> orientt]
    ELSE Rounded(RoundLoop(order, orientt, ximtype, o.roundorientthresh,
                           [close |-> NoOrient, nclose |-> 0, nnear |-> 0,
                            warns |-> w], f),
                 idx, orientt, ximtype, f)

\* scanAll lines 1285-1289
suffix(k) == IF k = 0 THEN "" ELSE "o" \o ToString(k)

\* scanAll lines 1291-1300: the sub-series suffix of the slice and the index
\* after it; without splitorient the index is left alone
SplitOrient(idx, orientt, ximtype, nogeom, o) ==
    IF ~o.splitorient THEN [suff |-> "", idx |-> idx]
    ELSE LET key == OKey(orientt, ximtype)
             sersuff == IF nogeom THEN "unk"
                        ELSE IF key \in DOMAIN idx THEN idx[key]
                        ELSE suffix(Cardinality(DOMAIN idx))
         IN [suff |-> sersuff, idx |-> Put(idx, key, sersuff)]

\* a key of self.studies[study,name]: the series number followed by a suffix
\* (series numbers are digit strings and suffixes start with a letter, so
\* the pair determines the concatenated string)
SubKey(ser, suff) == [ser |-> ser, suff |-> suff]

(***************************************************************************)
(* scanAll lines 1358-1422: the Entity of a sub-series and its update.     *)
(* The maps file, end, pixels, rescale, mosaic, dtimes and descrip are     *)
(* keyed by <<slice index, time, echo>>; their values stand for the data   *)
(* of the file at that path.                                               *)
(***************************************************************************)
NewEntity(x) ==
    [echoes |-> {}, slices |-> {}, times |-> {},
     file |-> Empty, end |-> Empty, pixels |-> Empty, rescale |-> Empty,
     mosaic |-> Empty, dtimes |-> Empty, descrip |-> Empty,
     shape |-> x.shape, res |-> x.res, desc |-> x.desc, type |-> x.type,
     imtype |-> x.imtype, tr |-> x.tr, flip |-> x.flip,
     instance_time |-> x.itime, instance |-> x.instance, orient |-> {},
     missing |-> Empty]

SliceOffset == 10000

\* an update that forgets the descrip map
AddSliceNoDescrip(e, x, orientt, f) ==
    LET orient2  == e.orient \cup {orientt}
        sliceind == SliceOffset * (Cardinality(orient2) - 1) + x.slice
        key      == <<sliceind, x.time, x.echo>>
    IN [e EXCEPT !.orient = orient2,
                 !.slices = e.slices \cup {sliceind},
                 !.echoes = e.echoes \cup {x.echo},
                 !.times = e.times \cup {x.time},
                 !.file = Put(e.file, key, f),
                 !.end = Put(e.end, key, f),
                 !.pixels = Put(e.pixels, key, f),
                 !.rescale = Put(e.rescale, key, f),
                 !.mosaic = Put(e.mosaic, key, x.mosaicid),
                 !.dtimes = Put(e.dtimes, key, f)]

AddSlice(e, x, orientt, f) ==
    LET orient2  == e.orient \cup {orientt}
        sliceind == SliceOffset * (Cardinality(orient2) - 1) + x.slice
        key      == <<sliceind, x.time, x.echo>>
    IN [e EXCEPT !.orient = orient2,
                 !.instance = IF e.instance > x.instance THEN x.instance ELSE e.instance,
                 !.slices = e.slices \cup {sliceind},
                 !.echoes = e.echoes \cup {x.echo},
                 !.times = e.times \cup {x.time},
                 !.file = Put(e.file, key, f),
                 !.end = Put(e.end, key, f),
                 !.pixels = Put(e.pixels, key, f),
                 !.rescale = Put(e.rescale, key, f),
                 !.mosaic = Put(e.mosaic, key, x.mosaicid),
                 !.dtimes = Put(e.dtimes, key, f),
                 !.descrip = Put(e.descrip, key, f)]

\* no iteration raises more warnings than this
MaxWarns == 8

\* the error accumulator: errors[reason] gets the path appended
Tally(errs, w) ==
    Put(errs, w.err, IF w.err \in DOMAIN errs THEN Append(errs[w.err], w.file)
                     ELSE <<w.file>>)

RECURSIVE TallyAll(_, _)
TallyAll(errs, ws) ==
    IF ws = <<>> THEN errs ELSE TallyAll(Tally(errs, Head(ws)), Tail(ws))

(***************************************************************************)
(* One iteration of the scanAll loop (lines 769-1437).                     *)
(***************************************************************************)
IdxOf(ors, ser) == IF ser \in DOMAIN ors THEN ors[ser] ELSE Empty

\* lines 1303-1308: the renamed orientation replaces the old one in v[ser].orient
Reorient(e, r) ==
    IF r.renamed THEN [e EXCEPT !.orient = (e.orient \ {r.old}) \cup {r.orientt}]
    ELSE e

\* lines 1303-1429 for the slice x with rounding result r, sub-series key
\* key and Entity e (the one stored under key, or a new one)
StoreSlice(r, key, ors2, e, x, f, h, st) ==
    IF r.renamed /\ (key \notin DOMAIN st \/ r.old \notin e.orient)
    THEN [outcome |-> "abort", why |-> "KeyError: old_exact", ors |-> ors2,
          st |-> st, warns |-> r.warns, key |-> key, merged |-> r.merged,
          close |-> IF r.merged THEN <<r.old>> ELSE <<>>]
    ELSE IF ~h.hasADate \/ ~h.hasATime
    THEN [outcome |-> "abort",
          why |-> IF ~h.hasADate THEN "KeyError: (0x0008,0x0022)"
                  ELSE "KeyError: (0x0008,0x0032)",
          ors |-> ors2,
          st |-> IF r.renamed THEN Put(st, key, Reorient(e, r)) ELSE st,
          warns |-> r.warns, key |-> key, merged |-> r.merged,
          close |-> IF r.merged THEN <<r.old>> ELSE <<>>]
    ELSE [outcome |-> "ok", why |-> "", ors |-> ors2,
          st |-> Put(st, key, AddSlice(Reorient(e, r), x, r.orientt, f)),
          warns |-> r.warns, key |-> key, merged |-> r.merged,
          close |-> IF r.merged THEN <<r.old>> ELSE <<>>]

StoreKeyed(r, key, ors2, x, f, h, st) ==
    StoreSlice(r, key, ors2, IF key \in DOMAIN st THEN st[key] ELSE NewEntity(x),
               x, f, h, st)

StoreSplit(r, sp, x, f, h, ors, st) ==
    StoreKeyed(r, SubKey(x.ser, sp.suff), Put(ors, x.ser, sp.idx), x, f, h, st)

StoreRounded(r, x, f, h, o, ors, st) ==
    StoreSplit(r, SplitOrient(r.idx, r.orientt, x.imtype, x.nogeom, o),
               x, f, h, ors, st)

\* lines 1211-1429: the part of the iteration after the inner try block.
\* KeyError and AttributeError are not DicomError: they leave scanAll.
Store(x, f, h, o, order, ors, st) ==
    StoreRounded(RoundOrient(order, IdxOf(ors, x.ser), x.orientt, x.imtype, o,
                             WarnsOf(x.warns, f), f),
                 x, f, h, o, ors, st)

\* the locals and self.studies as an iteration that raises at once leaves them
Same ==
    [outcome |-> "abort", why |-> "", d |-> d, vis |-> visited,
     rep |-> 0, ors |-> orientations, warns |-> <<>>,
     errcount |-> errcount, errors |-> errors, st |-> studies,
     tile |-> -1, key |-> Nil, merged |-> FALSE, close |-> <<>>,
     slice |-> Nil, idx0 |-> Empty]

IterateStored(s, x, h) ==
    IF s.outcome = "abort"
    THEN [Same EXCEPT !.d = h, !.vis = x.vis, !.rep = x.rep, !.ors = s.ors,
                      !.st = s.st, !.warns = s.warns, !.why = s.why,
                      !.key = s.key, !.merged = s.merged, !.close = s.close,
                      !.slice = x, !.idx0 = IdxOf(orientations, x.ser)]
    ELSE [Same EXCEPT !.d = h, !.vis = x.vis, !.rep = x.rep, !.ors = s.ors,
                      !.st = s.st, !.warns = s.warns, !.why = s.why,
                      !.key = s.key, !.merged = s.merged, !.close = s.close,
                      !.slice = x, !.idx0 = IdxOf(orientations, x.ser),
                      !.outcome = "ok",
                      !.errcount = errcount + Len(s.warns),
                      !.errors = TallyAll(errors, s.warns),
                      !.tile = IF x.mosaicid = Nil THEN -1 ELSE x.mosaicid.n]

IterateExtracted(x, f, h, order) ==
    IF x.err # ""
    THEN [Same EXCEPT !.outcome = "err", !.why = x.err, !.d = ExcObj,
                      !.vis = x.vis, !.rep = x.rep,
                      !.warns = WarnsOf(x.warns, f),
                      !.errcount = errcount + 1,
                      !.errors = Tally(errors, Warn(x.err, f))]
    ELSE IterateStored(Store(x, f, h, opts, order, orientations, studies), x, h)

IterateHeader(h, f, order) ==
    IterateExtracted(Extract(h, f, opts, visited), f, h, order)

\* the whole iteration for list position n1: the values of the locals and of
\* self.studies after it, and how it ended ("ok", "err": a DicomError was
\* tallied, "abort": another exception left scanAll)
Iterate(file, rh, order) ==
    IF rh = 1 /\ file.hdr # ""
    THEN [Same EXCEPT !.outcome = "err", !.why = file.hdr, !.d = ExcObj,
                      !.errcount = errcount + 1,
                      !.errors = Tally(errors, Warn(file.hdr, file.path))]
    ELSE IF rh = 0 /\ d = ExcObj
    THEN [Same EXCEPT !.why = "AttributeError: vals"]
    ELSE IterateHeader(IF rh = 1 THEN file ELSE d, file.path, order)

\* one order of S
RECURSIVE AnOrder(_)
AnOrder(S) ==
    IF S = {} THEN <<>>
    ELSE <<CHOOSE x \in S : TRUE>> \o AnOrder(S \ {CHOOSE x \in S : TRUE})

\* the orders in which the loop of lines 1251-1266 may walk the index of
\* the series; the loop runs only with roundorient, and without it the
\* order of the index has no effect on the iteration
IterOrders(S, walked) == IF walked THEN Orders(S) ELSE {AnOrder(S)}

\* the series whose orientation index the iteration walks through
CurrentSer(n1, rh) ==
    LET h == IF rh = 1 THEN files[n1 + 1] ELSE d
    IN IF "ser" \in DOMAIN h THEN h.ser ELSE 0

\* the assignments an iteration ends with
Commit(r, n1, rh) ==
    /\ n' = n1
    /\ repeat' = r.rep
    /\ d' = r.d
    /\ visited' = r.vis
    /\ orientations' = r.ors
    /\ warnings' = r.warns
    /\ errcount' = r.errcount
    /\ errors' = r.errors
    /\ studies' = r.st
    /\ pc' = IF r.outcome = "abort" THEN "aborted" ELSE "scan"
    /\ log' = Append(log, [pos |-> n1, path |-> files[n1 + 1].path,
                           read |-> rh, outcome |-> r.outcome,
                           why |-> r.why, tile |-> r.tile,
                           key |-> r.key, merged |-> r.merged,
                           close |-> r.close, warns |-> r.warns,
                           slice |-> r.slice, idx0 |-> r.idx0])

ScanStep(n1, rh) ==
    /\ n1 < Len(files)
    /\ \E order \in IterOrders(DOMAIN IdxOf(orientations, CurrentSer(n1, rh)),
                                opts.roundorient) :
         Commit(Iterate(files[n1 + 1], rh, order), n1, rh)

ScanFile ==
    /\ pc = "scan"
    /\ ScanStep(IF repeat = 0 THEN n + 1 ELSE n, IF repeat = 0 THEN 1 ELSE 0)
    /\ UNCHANGED <<opts, files, todo, recon, readVars, giplVars, libVars>>

\* lines 773-778: the index runs off the list and the loop is left
ScanEnd ==
    /\ pc = "scan"
    /\ repeat = 0
    /\ n + 1 = Len(files)
    /\ n' = n + 1
    /\ pc' = "rename"
    /\ todo' = IF opts.splitorient THEN DOMAIN orientations ELSE {}
    /\ UNCHANGED <<opts, files, repeat, d, visited, orientations, warnings,
                   errcount, errors, studies, log, recon, readVars, giplVars, libVars>>
(***************************************************************************)
(* scanAll lines 1462-1513: renaming of the orientation sub-series, one    *)
(* series of the index per step.                                           *)
(***************************************************************************)
Letters == <<"a", "b", "c", "d", "e", "f", "g", "h", "i", "j", "k", "l", "m",
             "n", "o", "p", "q", "r", "s", "t", "u", "v", "w", "x", "y">>

z_ser(k) ==
    "z" \o (IF k < 10 THEN "000" ELSE IF k < 100 THEN "00"
            ELSE IF k < 1000 THEN "0" ELSE "") \o ToString(k)

alpha_ser(k) == IF k <= 24 THEN Letters[k + 1] ELSE z_ser(k)

\* the mapping built for one series: subseries is the list sorted by
\* instance number, each entry an index key; the result maps old
\* sub-series keys to new ones (a later entry replaces an earlier one)
NameOf(style, key, i) ==
    IF style = "short" THEN findOrientShort(key.o)
    ELSE IF style = "z" THEN z_ser(i)
    ELSE alpha_ser(i)

MapNames(subseries, idx, serk, style) ==
    LET sub(i) == SubKey(serk, idx[subseries[i]])
    IN [k \in {sub(i) : i \in DOMAIN subseries} |->
          LET last == Max({i \in DOMAIN subseries : sub(i) = k})
          IN SubKey(serk, NameOf(style, subseries[last], last - 1))]

Mapping(subseries, idx, serk, o) ==
    LET short_names == /\ ~o.nsubseries
                       /\ \A i, j \in DOMAIN subseries :
                             i # j => NameOf("short", subseries[i], 0)
                                         # NameOf("short", subseries[j], 0)
    IN IF short_names THEN MapNames(subseries, idx, serk, "short")
       ELSE IF o.nsubseries THEN MapNames(subseries, idx, serk, "z")
       ELSE MapNames(subseries, idx, serk, "alpha")

\* for k in mapping.keys(): v[mapping[k]] = v[k]; del v[k]
Rekey(st, mapping) ==
    LET kept == (DOMAIN st) \ (DOMAIN mapping)
        new  == {mapping[k] : k \in DOMAIN mapping}
    IN [k \in kept \cup new |->
          IF k \in new THEN st[CHOOSE old \in DOMAIN mapping : mapping[old] = k]
          ELSE st[k]]

\* subseries.sort(loc_cmp), lines 1479-1481: the lists of the keys S in
\* which the instance numbers inst[k] never decrease; entries with equal
\* instance numbers keep the order in which the index yielded them, which
\* may be any
RECURSIVE SortedOrders(_, _)
SortedOrders(S, inst) ==
    IF S = {} THEN {<<>>}
    ELSE UNION {{<<x>> \o r : r \in SortedOrders(S \ {x}, inst)} :
                   x \in {y \in S : \A z \in S : inst[y] <= inst[z]}}

RenameSubseries ==
    /\ pc = "rename"
    /\ \E serk \in todo :
         LET idx == orientations[serk]
         IN /\ todo' = todo \ {serk}
            /\ IF Cardinality(DOMAIN idx) > 1
               THEN IF \E k \in DOMAIN idx : SubKey(serk, idx[k]) \notin DOMAIN studies
                    THEN pc' = "aborted" /\ UNCHANGED studies
                    ELSE \E subseries \in SortedOrders(DOMAIN idx,
                                            [k \in DOMAIN idx |->
                                               studies[SubKey(serk, idx[k])].instance]) :
                           /\ studies' = Rekey(studies, Mapping(subseries, idx, serk, opts))
                           /\ pc' = pc
               ELSE UNCHANGED <<pc, studies>>
    /\ UNCHANGED <<opts, files, n, repeat, d, visited, orientations, warnings,
                   errcount, errors, log, recon, readVars, giplVars, libVars>>
(***************************************************************************)
(* scanAll lines 1526-1644: time keys taken from instance numbers are      *)
(* collapsed into volume indices, one Entity per step.  stes is the order  *)
(* in which e.file yields its keys, groups the order in which times_se     *)
(* yields its keys.                                                        *)
(***************************************************************************)
WarnMissingPlanes == "missing planes in instance order, gaps may be assigned to wrong volume"

WarnInconsistent == "instance spacing inconsistent, multi-volume slice assignment may be wrong"

WarnNotConstant == "instance spacing not constant, series probably has multiple volume axes"

WarnGuessing == "guessing times from instance numbers"

WarnMissingSlices == "missing slices in volumes generated from series"

RECURSIVE SortedSeq(_)
SortedSeq(S) == IF S = {} THEN <<>> ELSE <<Min(S)>> \o SortedSeq(S \ {Min(S)})

\* sorted(e.file.keys())[0]: tuples compare component by component (the
\* time strings of the model have one digit, so they order as their numbers)
FirstKey(K) ==
    CHOOSE k \in K : \A m \in K :
        \/ k[1] < m[1]
        \/ k[1] = m[1] /\ k[2] < m[2]
        \/ k[1] = m[1] /\ k[2] = m[2] /\ k[3] <= m[3]

\* times_se[slice,echo], sorted
TimesOf(K, g) == SortedSeq({k[2] : k \in {m \in K : <<m[1], m[3]>> = g}})

Deltas(t) == [i \in 1..(Len(t) - 1) |-> t[i + 1] - t[i]]

\* times_map after the loop over the groups: a later group replaces the
\* entries of an earlier one
RECURSIVE TimesMap(_, _)
TimesMap(K, groups) ==
    IF groups = <<>> THEN Empty
    ELSE LET t == TimesOf(K, groups[Len(groups)])
         IN [x \in Range(t) |-> Cardinality({y \in Range(t) : y < x})]
            @@ TimesMap(K, SubSeq(groups, 1, Len(groups) - 1))

\* a rewrite that keeps the instance number as the time key
RewriteKeepsInstance(m, stes, tm) == [k \in {stes[i] : i \in DOMAIN stes} |-> m[k]]

Rewrite(m, stes, tm) ==
    LET nk(k) == <<k[1], tm[k[2]], k[3]>>
    IN [k \in {nk(stes[i]) : i \in DOMAIN stes} |->
          m[stes[Max({i \in DOMAIN stes : nk(stes[i]) = k})]]]

Reconstruct(e, stes, groups) ==
    LET K      == DOMAIN e.file
        times  == Cardinality(e.times)
        nt_set == {Len(TimesOf(K, groups[i])) : i \in DOMAIN groups}
        nt     == Max(nt_set)
        tm     == TimesMap(K, groups)
        deltas_se  == {Deltas(TimesOf(K, groups[i])) :
                          i \in {j \in DOMAIN groups : Len(TimesOf(K, groups[j])) > 1}}
        all_deltas == UNION {Range(dl) : dl \in deltas_se}
        w1 == IF Cardinality(nt_set) > 1
              THEN <<Warn(WarnMissingPlanes, e.file[stes[1]])>> ELSE <<>>
        w2 == IF Cardinality(deltas_se) > 1
              THEN <<Warn(WarnInconsistent, e.file[FirstKey(K)])>>
              ELSE IF Cardinality(all_deltas) > 1
              THEN <<Warn(WarnNotConstant, e.file[FirstKey(K)])>>
              ELSE <<>>
        w3 == IF nt # times /\ nt > 1
              THEN [i \in DOMAIN stes |-> Warn(WarnGuessing, e.file[stes[i]])]
              ELSE <<>>
    IN [warns |-> w1 \o w2 \o w3,
        nt |-> nt,
        rewritten |-> nt # times,
        e |-> IF nt = times THEN e
              ELSE [e EXCEPT !.times = {tm[k[2]] : k \in K},
                             !.file = Rewrite(e.file, stes, tm),
                             !.end = Rewrite(e.end, stes, tm),
                             !.pixels = Rewrite(e.pixels, stes, tm),
                             !.rescale = Rewrite(e.rescale, stes, tm),
                             !.mosaic = Rewrite(e.mosaic, stes, tm),
                             !.dtimes = Rewrite(e.dtimes, stes, tm),
                             !.descrip = Rewrite(e.descrip, stes, tm)]]
GroupSizes(K) == {Cardinality({m \in K : <<m[1], m[3]>> = <<k[1], k[3]>>}) : k \in K}

\* the rewrite runs and nt > 1: only then can two entries meet at one
\* rewritten key (with nt = 1 each group has one entry, rewritten to time
\* 0), only then does the rewrite warn, and only then does times_map
\* depend on the order of the groups
OrderMatters(e) ==
    /\ Max(GroupSizes(DOMAIN e.file)) # Cardinality(e.times)
    /\ Max(GroupSizes(DOMAIN e.file)) > 1

\* the orders of e.file's keys that can differ in their effect: the order
\* decides which entry wins a rewritten key, the order of the warnings of the
\* rewrite, and the file the missing-planes warning names
FileOrders(e) ==
    IF OrderMatters(e) \/ Cardinality(GroupSizes(DOMAIN e.file)) > 1
    THEN Orders(DOMAIN e.file)
    ELSE {AnOrder(DOMAIN e.file)}

\* likewise the orders of times_se's keys
GroupOrders(e) ==
    IF OrderMatters(e)
    THEN Orders({<<k[1], k[3]>> : k \in DOMAIN e.file})
    ELSE {AnOrder({<<k[1], k[3]>> : k \in DOMAIN e.file})}

Reconstructed(key, e, r) ==
    /\ studies' = [studies EXCEPT ![key] = r.e]
    /\ warnings' = warnings \o r.warns
    /\ recon' = Put(recon, key, [key |-> key, nt |-> r.nt,
                                  rewritten |-> r.rewritten, before |-> e])

ReconstructEntity(key, e) ==
    IF e.instance_time = 1
    THEN \E stes \in FileOrders(e), groups \in GroupOrders(e) :
            Reconstructed(key, e, Reconstruct(e, stes, groups))
    ELSE UNCHANGED <<studies, warnings, recon>>

ReconstructTimes ==
    /\ pc = "times"
    /\ \E key \in todo :
         /\ todo' = todo \ {key}
         /\ ReconstructEntity(key, studies[key])
    /\ UNCHANGED <<opts, files, pc, n, repeat, d, visited, orientations,
                   errcount, errors, log, readVars, giplVars, libVars>>

(***************************************************************************)
(* scanAll lines 1647-1670: missing-slice counts, one Entity per step.     *)
(***************************************************************************)
Missing(e) ==
    LET K == DOMAIN e.file
    IN [te \in {<<k[2], k[3]>> : k \in K} |->
          Cardinality(e.slices) - Cardinality({k \in K : <<k[2], k[3]>> = te})]

FindMissing ==
    /\ pc = "missing"
    /\ \E key \in todo :
         LET e == studies[key]
             m == Missing(e)
         IN /\ todo' = todo \ {key}
            /\ studies' = [studies EXCEPT ![key].missing = m]
            /\ IF \E te \in DOMAIN m : m[te] > 0
               THEN \E ste \in DOMAIN e.file :
                      warnings' = Append(warnings, Warn(WarnMissingSlices, e.file[ste]))
               ELSE UNCHANGED warnings
    /\ UNCHANGED <<opts, files, pc, n, repeat, d, visited, orientations,
                   errcount, errors, log, recon, readVars, giplVars, libVars>>

\* a post-scan loop has visited all its keys; the next one starts
NextPhase ==
    /\ pc \in {"rename", "times", "missing"}
    /\ todo = {}
    /\ pc' = IF pc = "rename" THEN "times"
             ELSE IF pc = "times" THEN "missing" ELSE "tally"
    /\ todo' = IF pc = "missing" THEN {} ELSE DOMAIN studies
    /\ UNCHANGED <<opts, files, n, repeat, d, visited, orientations, warnings,
                   errcount, errors, studies, log, recon, readVars, giplVars, libVars>>

\* scanAll lines 1672-1678
TallyWarnings ==
    /\ pc = "tally"
    /\ errcount' = errcount + Len(warnings)
    /\ errors' = TallyAll(errors, warnings)
    /\ pc' = "done"
    /\ UNCHANGED <<opts, files, n, repeat, d, visited, orientations, warnings,
                   studies, todo, log, recon, readVars, giplVars, libVars>>

ScanNext ==
    \/ ScanFile
    \/ ScanEnd
    \/ RenameSubseries
    \/ NextPhase
    \/ ReconstructTimes
    \/ FindMissing
    \/ TallyWarnings
(***************************************************************************)
(* Initial states.  scanAll starts from the constructor's options and file *)
(* list; the machines a specification does not run stay idle.              *)
(***************************************************************************)
ScanAt(p, fs, o) ==
    /\ opts = o
    /\ files = fs
    /\ pc = p
    /\ n = -1
    /\ repeat = 0
    /\ d = NoHeader
    /\ visited = Empty
    /\ orientations = Empty
    /\ warnings = <<>>
    /\ errcount = 0
    /\ errors = Empty
    /\ studies = Empty
    /\ todo = {}
    /\ log = <<>>
    /\ recon = Empty

ScanStart(fs, o) == ScanAt("scan", fs, o)

ScanIdle == ScanAt("idle", <<>>, DefaultOpts)

NoError == [type |-> "", reason |-> "", masked |-> ""]

Unbound == [kind |-> "unbound"]

ReaderAt(p, f, acr, flat) ==
    /\ rdFile = f
    /\ rdAcr = acr
    /\ rdFlat = flat
    /\ rdPc = p
    /\ rdPos = 0
    /\ rdEnd = "<"
    /\ rdStartb = 0
    /\ rdMaxbytes = 0
    /\ rdImplicit = 0
    /\ rdSwEndian = 0
    /\ rdSwImplicit = 0
    /\ rdSwitchAt = 0
    /\ rdVals = Empty
    /\ rdVf = Unbound
    /\ rdStack = <<>>
    /\ rdErr = NoError
    /\ rdTrace = <<>>

\* a DicomReader just constructed on the file f
ReadStart(f, acr, flat) == ReaderAt("header", f, acr, flat)

ReadIdle == ReaderAt("idle", <<>>, FALSE, FALSE)

GiplIdle ==
    /\ gpW = Nil
    /\ gpFile = <<>>
    /\ gpPc = "idle"
    /\ gpR = Nil
    /\ gpWErr = NoError
    /\ gpRErr = NoError

ImageIdle ==
    /\ im = Nil
    /\ imOp = "idle"
    /\ imRet = <<>>

MatchIdle ==
    /\ mtConf = Empty
    /\ mtDcm = <<>>
    /\ mtPatterns = Nil
    /\ mtMatches = Nil
    /\ mtErr = NoError
    /\ mtPc = "idle"

NiiIdle ==
    /\ niW = Nil
    /\ niFile = <<>>
    /\ niPc = "idle"

CsaIdle ==
    /\ csSrc = <<>>
    /\ csBlob = <<>>
    /\ csData = Nil
    /\ csOut = <<>>
    /\ csErr = NoError
    /\ csPc = "idle"

LibIdle == ImageIdle /\ MatchIdle /\ NiiIdle /\ CsaIdle

(***************************************************************************)
(* Specification SpecScanErr: file lists mixing good files with files that *)
(* fail to parse, fail a filter or lack a tag.  The file at list position  *)
(* i has path i, slice position i and instance number i + 1.               *)
(***************************************************************************)
MaxFilesErr == 3

At(i, h) == [h EXCEPT !.path = i, !.slice = i, !.inst = i + 1]

ErrKinds ==
    { BaseFile,
      [BaseFile EXCEPT !.hdr = "not a DICOM file"],
      [BaseFile EXCEPT !.descOK = FALSE],
      [BaseFile EXCEPT !.hasType = FALSE],
      [BaseFile EXCEPT !.typeOK = FALSE],
      [BaseFile EXCEPT !.geom = FALSE],
      [BaseFile EXCEPT !.hasReq = FALSE],
      [BaseFile EXCEPT !.hasInst = FALSE],
      [BaseFile EXCEPT !.hasPixSp = FALSE],
      [BaseFile EXCEPT !.hasADate = FALSE],
      [BaseFile EXCEPT !.hasATime = FALSE] }

FileLists(kinds, k) ==
    {[i \in DOMAIN q |-> At(i - 1, q[i])] : q \in SeqsUpTo(kinds, k)}

InitScanErr ==
    /\ \E fs \in FileLists(ErrKinds, MaxFilesErr) : ScanStart(fs, DefaultOpts)
    /\ ReadIdle
    /\ GiplIdle
    /\ LibIdle

SpecScanErr == InitScanErr /\ [][ScanNext]_vars
(***************************************************************************)
(* Specification SpecScanMosaic: lists over a few paths, each path a plain *)
(* file or a mosaic of up to MaxTiles tiles; a path may occur twice in the *)
(* list.  The file at path p has instance number p + 1; all share the      *)
(* position of the first tile.                                             *)
(***************************************************************************)
MaxFilesMosaic == 3

MaxPathsMosaic == 2

MaxTiles == 3

MosaicKinds ==
    {BaseFile}
    \cup {[BaseFile EXCEPT !.nmos = k] : k \in 1..MaxTiles}
    \cup {[BaseFile EXCEPT !.nmos = 2, !.has88 = FALSE],
          [BaseFile EXCEPT !.nmos = 2, !.hasADate = FALSE]}

MosaicLists ==
    {[i \in DOMAIN q |-> [content[q[i]] EXCEPT !.path = q[i], !.inst = q[i] + 1]] :
        q \in SeqsUpTo(0..(MaxPathsMosaic - 1), MaxFilesMosaic),
        content \in [0..(MaxPathsMosaic - 1) -> MosaicKinds]}

InitScanMosaic ==
    /\ \E fs \in MosaicLists :
       \E o \in {DefaultOpts, [DefaultOpts EXCEPT !.mosaic = 2]} : ScanStart(fs, o)
    /\ ReadIdle
    /\ GiplIdle
    /\ LibIdle

SpecScanMosaic == InitScanMosaic /\ [][ScanNext]_vars

\* scanAll is one sequential call: it takes its next step whenever it has
\* one.  This is WF_vars(ScanNext) with ENABLED <<ScanNext>>_vars written
\* out: a step exists in every state but those after the tally and after
\* an exception that leaves scanAll.
ScanRunning == pc \notin {"done", "aborted"}

ScanFair == []<>(~ScanRunning) \/ []<><<ScanNext>>_vars

SpecScanMosaicFair == SpecScanMosaic /\ ScanFair

(***************************************************************************)
(* Specification SpecScanTime: one series in one orientation, its files    *)
(* spread over two (slice, echo) groups (two slices, or two echoes of one  *)
(* slice) with instance numbers 1..MaxInst; either every file carries      *)
(* (0020,0100) or none does.  The list is sorted by path, and no two files *)
(* share slice, echo and instance number.                                  *)
(***************************************************************************)
MaxFilesTime == 4

MaxInst == 4

TimeFile(g, inst, byEcho, temporal) ==
    [BaseFile EXCEPT !.path = 2 * (inst - 1) + g,
                     !.slice = IF byEcho THEN 0 ELSE g,
                     !.echo = IF byEcho THEN g + 1 ELSE 1,
                     !.inst = inst,
                     !.hasTemporal = temporal,
                     !.tpos = inst]

TimeLists ==
    {[i \in 1..Cardinality(P) |->
         TimeFile(SortedSeq(P)[i] % 2, (SortedSeq(P)[i] \div 2) + 1, byEcho, temporal)] :
        P \in {Q \in SUBSET (0..(2 * MaxInst - 1)) : Cardinality(Q) <= MaxFilesTime},
        byEcho \in BOOLEAN, temporal \in BOOLEAN}

InitScanTime ==
    /\ \E fs \in TimeLists : ScanStart(fs, DefaultOpts)
    /\ ReadIdle
    /\ GiplIdle
    /\ LibIdle

SpecScanTime == InitScanTime /\ [][ScanNext]_vars

(***************************************************************************)
(* Specification SpecScanOrient: one series whose slices lie in planes     *)
(* tilted against axial by 0, 0.1, 0.15 or 0.25 degrees (i column) or 0.25 *)
(* degrees (j column), a slice of another image type and a slice without   *)
(* geometry tags; --stack-unk is set, the threshold is 0.2 or 0 degrees.   *)
(***************************************************************************)
MaxFilesOrient == 3

OrientKinds ==
    {[BaseFile EXCEPT !.orient = Orient("x", t, "y", 0)] : t \in {0, 2, 3, 5}}
    \cup {[BaseFile EXCEPT !.orient = Orient("x", 0, "y", 5)],
          [BaseFile EXCEPT !.imtype = "p", !.type = "ORIGINAL/PRIMARY/P"],
          [BaseFile EXCEPT !.geom = FALSE]}

OrientOpts ==
    {[DefaultOpts EXCEPT !.stackunk = TRUE],
     [DefaultOpts EXCEPT !.stackunk = TRUE, !.roundorientthresh = 0]}

InitScanOrient ==
    /\ \E fs \in FileLists(OrientKinds, MaxFilesOrient) :
       \E o \in OrientOpts : ScanStart(fs, o)
    /\ ReadIdle
    /\ GiplIdle
    /\ LibIdle

SpecScanOrient == InitScanOrient /\ [][ScanNext]_vars

(***************************************************************************)
(* Specification SpecScanSplit: one series of axial slices, slices whose   *)
(* i vector is rotated by 5 degrees against axial, and sagittal slices.    *)
(***************************************************************************)
MaxFilesSplit == 4

Axial == Orient("x", 0, "y", 0)

\* the i vector 5 degrees off axial, in units of 0.05 degree
Rotated == Orient("x", 100, "y", 0)

SplitKinds ==
    {[BaseFile EXCEPT !.orient = Axial],
     [BaseFile EXCEPT !.orient = Rotated],
     [BaseFile EXCEPT !.orient = Orient("y", 0, "-z", 0)]}

SplitOpts ==
    {DefaultOpts,
     [DefaultOpts EXCEPT !.nsubseries = TRUE],
     [DefaultOpts EXCEPT !.roundorient = FALSE],
     [DefaultOpts EXCEPT !.splitorient = FALSE]}

InitScanSplit ==
    /\ \E fs \in FileLists(SplitKinds, MaxFilesSplit) :
       \E o \in SplitOpts : ScanStart(fs, o)
    /\ ReadIdle
    /\ GiplIdle
    /\ LibIdle

SpecScanSplit == InitScanSplit /\ [][ScanNext]_vars

(***************************************************************************)
(* Specification SpecScanNames: one series of up to MaxBlocks slices, each *)
(* in a plane of its own (all nearest to axial), scanned with splitorient  *)
(* and without roundorient, up to the end of the renaming.  The instance   *)
(* numbers either rise or fall along the file list.                        *)
(***************************************************************************)
MaxBlocks == 27

\* the i vector tilted by k steps of 0.05 degree
Tilted(k) == Orient("x", k, "y", 0)

\* m files, one per plane; falling: the instance numbers run m..1
BlockList(m, falling) ==
    [i \in 1..m |->
        [At(i - 1, [BaseFile EXCEPT !.orient = Tilted(i - 1)])
           EXCEPT !.inst = IF falling THEN m + 1 - i ELSE i]]

InitScanNames ==
    /\ \E m \in 1..MaxBlocks : \E falling \in BOOLEAN : \E ns \in BOOLEAN :
          ScanStart(BlockList(m, falling),
                    [DefaultOpts EXCEPT !.roundorient = FALSE, !.nsubseries = ns])
    /\ ReadIdle
    /\ GiplIdle
    /\ LibIdle

\* scanAll up to the end of the renaming (line 1513); the later phases
\* leave the keys of self.studies alone
ScanRenameNext ==
    \/ ScanFile
    \/ ScanEnd
    \/ RenameSubseries

SpecScanNames == InitScanNames /\ [][ScanRenameNext]_vars

(***************************************************************************)
(* Specification SpecScanInst: one series of sagittal slices with and      *)
(* without the geometry tags and the instance number, scanned under every  *)
(* combination of sliceinst, slice3d and stackunk.                         *)
(***************************************************************************)
MaxFilesInst == 2

Sagittal == Orient("y", 0, "-z", 0)

InstKinds ==
    {[BaseFile EXCEPT !.orient = Sagittal, !.geom = g, !.hasInst = i] :
        g \in BOOLEAN, i \in BOOLEAN}

InstOpts ==
    {[DefaultOpts EXCEPT !.sliceinst = a, !.slice3d = b, !.stackunk = c] :
        a \in BOOLEAN, b \in BOOLEAN, c \in BOOLEAN}

InitScanInst ==
    /\ \E fs \in FileLists(InstKinds, MaxFilesInst) :
       \E o \in InstOpts : ScanStart(fs, o)
    /\ ReadIdle
    /\ GiplIdle
    /\ LibIdle

SpecScanInst == InitScanInst /\ [][ScanNext]_vars

(***************************************************************************)
(* Specification SpecScanMerge: one series of up to MaxFilesMerge slices   *)
(* in planes tilted against axial by 0, 0.1 or 0.25 degrees, of one image  *)
(* type or two, scanned with the default threshold of 0.2 degrees.         *)
(***************************************************************************)
MaxFilesMerge == 5

MergeKinds ==
    {[BaseFile EXCEPT !.orient = Orient("x", t, "y", 0)] : t \in {0, 2, 5}}
    \cup {[BaseFile EXCEPT !.orient = Orient("x", 2, "y", 0),
                           !.imtype = "p", !.type = "ORIGINAL/PRIMARY/P"]}

InitScanMerge ==
    /\ \E fs \in FileLists(MergeKinds, MaxFilesMerge) : ScanStart(fs, DefaultOpts)
    /\ ReadIdle
    /\ GiplIdle
    /\ LibIdle

SpecScanMerge == InitScanMerge /\ [][ScanNext]_vars

(***************************************************************************)
(* Specification SpecScanTags: one series in one plane whose files lack    *)
(* the geometry tags, the instance number, the pixel spacing or the slice  *)
(* thickness tags, or differ from the others in pixel spacing, matrix      *)
(* size, description, image type, TR or flip angle; scanned under every    *)
(* combination of stackunk, sliceinst, slice3d and splitorient.            *)
(***************************************************************************)
MaxFilesTags == 2

TagKinds ==
    { BaseFile,
      [BaseFile EXCEPT !.geom = FALSE],
      [BaseFile EXCEPT !.geom = FALSE, !.hasInst = FALSE],
      [BaseFile EXCEPT !.hasInst = FALSE],
      [BaseFile EXCEPT !.hasPixSp = FALSE],
      [BaseFile EXCEPT !.has88 = FALSE],
      [BaseFile EXCEPT !.has88 = FALSE, !.has50 = FALSE],
      [BaseFile EXCEPT !.px = 3],
      [BaseFile EXCEPT !.shape = 128],
      [BaseFile EXCEPT !.desc = "t2_tse"],
      [BaseFile EXCEPT !.type = "DERIVED/PRIMARY/M"],
      [BaseFile EXCEPT !.tr = 4000],
      [BaseFile EXCEPT !.flip = 12] }

TagOpts ==
    {[DefaultOpts EXCEPT !.stackunk = a, !.sliceinst = b, !.slice3d = c,
                         !.splitorient = e] :
        a \in BOOLEAN, b \in BOOLEAN, c \in BOOLEAN, e \in BOOLEAN}

InitScanTags ==
    /\ \E fs \in FileLists(TagKinds, MaxFilesTags) :
       \E o \in TagOpts : ScanStart(fs, o)
    /\ ReadIdle
    /\ GiplIdle
    /\ LibIdle

SpecScanTags == InitScanTags /\ [][ScanNext]_vars

(***************************************************************************)
(* Properties of scanAll's error handling                                  *)
(***************************************************************************)
ScanLog == Range(log)

Tallied(reason, path) ==
    reason \in DOMAIN errors /\ path \in Range(errors[reason])

\* C1: a file that lacks a tag the scan reads, fails a filter or fails to
\* parse never aborts the scan: the file is dropped, its reason is tallied in
\* the error accumulator, and every later file of the list is processed.
C1_DroppedFileNeverAborts ==
    /\ pc # "aborted"
    /\ \A entry \in ScanLog :
          entry.outcome = "err" => Tallied(entry.why, entry.path)
    /\ pc \notin {"scan", "aborted"} =>
          \A i \in 0..(Len(files) - 1) : \E entry \in ScanLog : entry.pos = i

\* what does hold: a scan is only ever left through the unprotected reads
\* of (0008,0022) and (0008,0032), and every DicomError is tallied
ScanErr_AbortOnlyOnAcquisitionTags ==
    /\ pc = "aborted" =>
          log[Len(log)].why \in {"KeyError: (0x0008,0x0022)", "KeyError: (0x0008,0x0032)"}
    /\ \A entry \in ScanLog :
          entry.outcome = "err" => Tallied(entry.why, entry.path)
    /\ (pc \notin {"scan", "aborted"}) =>
          \A i \in 0..(Len(files) - 1) : \E entry \in ScanLog : entry.pos = i
(***************************************************************************)
(* Properties of the mosaic re-visits                                      *)
(***************************************************************************)
\* the tile count scanAll uses for a file (0: not a mosaic)
Tiles(h) == IF opts.mosaic # 0 THEN opts.mosaic ELSE h.nmos

Visits(i) == SelectSeq(log, LAMBDA entry : entry.pos = i)

\* the slice indices of the records the maps of self.studies hold for a path
SlicesOf(path) ==
    UNION {{k[1] : k \in {m \in DOMAIN studies[key].file : studies[key].file[m] = path}} :
              key \in DOMAIN studies}

MosaicVisited(i) ==
    LET h == files[i + 1]
        v == Visits(i)
    IN /\ Len(v) = Tiles(h)
       /\ \A k \in DOMAIN v :
             /\ v[k].outcome = "ok"
             /\ v[k].tile = k - 1
             /\ v[k].read = (IF k = 1 THEN 1 ELSE 0)

\* C3: a mosaic file with N tiles is processed N consecutive times without
\* re-reading its header, the tile index taking each value 0..N-1 once, and
\* then the scan advances; exactly N slice records are stored for the file,
\* their slice indices increasing by the slice spacing from tile to tile.
C3_MosaicFileVisitedOncePerTile ==
    \A i \in 0..(Len(files) - 1) :
       (Tiles(files[i + 1]) > 0 /\ (n > i \/ pc # "scan")) =>
          /\ MosaicVisited(i)
          /\ SlicesOf(files[i + 1].path) =
                {files[i + 1].slice + files[i + 1].spacing * t :
                    t \in 0..(Tiles(files[i + 1]) - 1)}

\* what does hold: the same, for a list that names each path once and whose
\* files carry (0018,0088), (0008,0022) and (0008,0032)
Mosaic_VisitedOncePerTileWhenWellFormed ==
    ((\A i, j \in DOMAIN files : i # j => files[i].path # files[j].path)
     /\ (\A i \in DOMAIN files : files[i].has88 /\ files[i].hasADate /\ files[i].hasATime))
    => C3_MosaicFileVisitedOncePerTile
(***************************************************************************)
(* Properties of the main loop                                             *)
(***************************************************************************)
\* the visits come in list order, each position at least once
InListOrder ==
    /\ log # <<>> => log[1].pos = 0
    /\ \A k \in 1..(Len(log) - 1) : log[k + 1].pos \in {log[k].pos, log[k].pos + 1}
    /\ pc \notin {"scan", "aborted"} => Len(log) > 0 \/ files = <<>>
    /\ pc \notin {"scan", "aborted"} /\ files # <<>> => log[Len(log)].pos = Len(files) - 1

\* a file that is no mosaic or fails is visited once, and a file is visited
\* again only while its visit count is below its tile count
VisitsBounded(i) ==
    /\ Tiles(files[i + 1]) = 0 => Len(Visits(i)) <= 1
    /\ Visits(i) # <<>> /\ files[i + 1].hdr # "" => Len(Visits(i)) = 1
    /\ Len(Visits(i)) <= Max({1, Tiles(files[i + 1])})

\* every recorded mosaic descriptor has a tile index below the tile count
TileBelowCount(entry) ==
    entry.tile # -1 => 0 <= entry.tile /\ entry.tile < Tiles(files[entry.pos + 1])

\* C27: the main loop terminates for every list: every path is visited in
\* list order, a file that is no mosaic or fails exactly once, a file again
\* only while its visit count is below its tile count N (also when a step
\* fails after the flag for another visit was set, and when a path occurs
\* twice), and every recorded mosaic descriptor has a tile index n with
\* 0 <= n < N.
C27_LoopEndsAfterEveryPath ==
    /\ <>(pc \notin {"scan", "aborted"})
    /\ [](/\ InListOrder
          /\ \A i \in 0..(Len(files) - 1) : VisitsBounded(i)
          /\ \A entry \in ScanLog : TileBelowCount(entry))

\* what does hold: the call always ends, in "done" or by an exception that
\* leaves scanAll
Loop_EndsOrAborts == <>(pc \in {"done", "aborted"})

\* what does hold: the visits are in list order and bounded as claimed; the
\* loop is left before the end of the list only by an AttributeError on
\* the visit after a failed one or by the KeyError of an acquisition tag;
\* and a tile index is below the tile count at the first occurrence of a
\* path
Loop_TileBelowCountAtFirstOccurrence ==
    /\ InListOrder
    /\ \A i \in 0..(Len(files) - 1) : VisitsBounded(i)
    /\ pc = "aborted" =>
          log[Len(log)].why \in {"AttributeError: vals", "KeyError: (0x0008,0x0022)",
                                 "KeyError: (0x0008,0x0032)"}
    /\ \A entry \in ScanLog :
          (\A i \in 1..entry.pos : files[i].path # entry.path) => TileBelowCount(entry)

(***************************************************************************)
(* Properties of the error accumulator                                     *)
(***************************************************************************)
Reasons == {w.err : w \in Range(warnings)} \cup DOMAIN errors
              \cup UNION {{w.err : w \in Range(entry.warns)} \cup {entry.why} :
                             entry \in ScanLog}

\* how often the reason occurs in a list of warnings
Occurs(ws, reason) == Cardinality({k \in DOMAIN ws : ws[k].err = reason})

\* the warnings raised after the main loop: warnings without the list the
\* last iteration left in it
RaisedAfterLoop ==
    IF log = <<>> THEN warnings
    ELSE SubSeq(warnings, Len(log[Len(log)].warns) + 1, Len(warnings))

\* how often the reason was raised in the first k iterations, as a warning
\* or as the error that ended the iteration
RECURSIVE RaisedInLoop(_, _)
RaisedInLoop(k, reason) ==
    IF k = 0 THEN 0
    ELSE RaisedInLoop(k - 1, reason) + Occurs(log[k].warns, reason)
            + (IF log[k].outcome = "err" /\ log[k].why = reason THEN 1 ELSE 0)

\* how often the first k iterations tallied the reason: the warnings of an
\* iteration that ended well, the error of one that did not
RECURSIVE TalliedInLoop(_, _)
TalliedInLoop(k, reason) ==
    IF k = 0 THEN 0
    ELSE TalliedInLoop(k - 1, reason)
            + (IF log[k].outcome = "ok" THEN Occurs(log[k].warns, reason) ELSE 0)
            + (IF log[k].outcome = "err" /\ log[k].why = reason THEN 1 ELSE 0)

TallyOf(reason) == IF reason \in DOMAIN errors THEN Len(errors[reason]) ELSE 0

\* C28: at the end of scanAll the occurrence count of every reason in the
\* error accumulator is the number of times it was raised during the run,
\* and errcount is the total number raised: each warning of each file is
\* tallied once, those of the last file included.
C28_TallyCountsEveryWarningOnce ==
    pc = "done" =>
       /\ \A reason \in Reasons :
             TallyOf(reason) = RaisedInLoop(Len(log), reason)
                                  + Occurs(RaisedAfterLoop, reason)
       /\ errcount = Len(RaisedAfterLoop)
                        + Cardinality({k \in DOMAIN log : log[k].outcome = "err"})
                        + Cardinality({q \in (DOMAIN log) \X (1..MaxWarns) :
                                          q[2] <= Len(log[q[1]].warns)})

\* what does hold: the loop tallies the warnings of the iterations that end
\* well and the error of each that fails, and the final tally adds the
\* whole list warnings, which still holds whatever the last iteration left
\* in it
Tally_LastListTalliedAgain ==
    pc = "done" =>
       /\ \A reason \in Reasons :
             TallyOf(reason) = TalliedInLoop(Len(log), reason) + Occurs(warnings, reason)
       /\ \A reason \in DOMAIN errors : TallyOf(reason) > 0
       /\ \A k \in DOMAIN log : Len(log[k].warns) <= MaxWarns

(***************************************************************************)
(* Properties of the instance-time reconstruction                          *)
(***************************************************************************)
TimesLog == {recon[k] : k \in DOMAIN recon}

GroupsOf(K) == {<<k[1], k[3]>> : k \in K}

InGroup(K, g) == {k \in K : <<k[1], k[3]>> = g}

AtTime(K, t) == {k \in K : k[2] = t}

PerSliceMaps(e) == <<e.file, e.end, e.pixels, e.rescale, e.mosaic, e.dtimes, e.descrip>>

\* every (slice, echo) combination is a group, and each group holds T files
Uniform(e, T) ==
    /\ Cardinality(GroupsOf(DOMAIN e.file)) = Cardinality(e.slices) * Cardinality(e.echoes)
    /\ \A g \in GroupsOf(DOMAIN e.file) : Cardinality(InGroup(DOMAIN e.file, g)) = T

\* C4: in a series without (0020,0100) in which each of the S*E
\* (slice, echo) groups holds T files with distinct instance numbers, the
\* sub-series has exactly T time keys after the reconstruction and each
\* time key has exactly S*E entries in the file map.
C4_UniformGroupsGiveTVolumes ==
    \A entry \in TimesLog : \A T \in 1..Len(files) :
       Uniform(entry.before, T) =>
          LET e == studies[entry.key]
          IN /\ Cardinality(e.times) = T
             /\ \A t \in e.times :
                   Cardinality(AtTime(DOMAIN e.file, t))
                      = Cardinality(GroupsOf(DOMAIN entry.before.file))

\* what does hold: the same when no instance number occurs in two groups
\* at different sorted positions; here, when the groups share no instance
\* number or all hold the same instance numbers
Time_UniformGroupsGiveTVolumesWhenUnshared ==
    \A entry \in TimesLog : \A T \in 1..Len(files) :
       (/\ Uniform(entry.before, T)
        /\ \/ Cardinality(entry.before.times) = Cardinality(DOMAIN entry.before.file)
           \/ Cardinality(entry.before.times) = T) =>
          LET e == studies[entry.key]
          IN /\ Cardinality(e.times) = T
             /\ \A t \in e.times :
                   Cardinality(AtTime(DOMAIN e.file, t))
                      = Cardinality(GroupsOf(DOMAIN entry.before.file))

\* C5 (as stated): after the reconstruction of a sub-series whose times came
\* from instance numbers, the time keys, in times and in every per-slice
\* map, are exactly the volume indices 0..nt-1, also when S*E = 1.
C5_TimeKeysAreVolumeIndices ==
    \A entry \in TimesLog :
       LET e == studies[entry.key]
       IN /\ e.times = 0..(entry.nt - 1)
          /\ \A i \in 1..7 : {k[2] : k \in DOMAIN PerSliceMaps(e)[i]} = 0..(entry.nt - 1)

\* C5 (amended): the rewrite runs exactly when nt differs from the number of
\* distinct instance numbers.  When it runs, every time key, in times and in
\* every per-slice map, is a volume index in 0..nt-1, and the key set is all
\* of 0..nt-1 when no instance number occurs in two groups.  When it does
\* not run, the time keys stay the instance numbers.
C5_RewrittenTimeKeysAreVolumeIndices ==
    \A entry \in TimesLog :
       LET e == studies[entry.key]
           b == entry.before
       IN /\ entry.rewritten <=> (entry.nt # Cardinality(b.times))
          /\ entry.nt = Max({Cardinality(InGroup(DOMAIN b.file, g)) :
                                g \in GroupsOf(DOMAIN b.file)})
          /\ \A i \in 1..7 : {k[2] : k \in DOMAIN PerSliceMaps(e)[i]} = e.times
          /\ entry.rewritten => e.times \subseteq 0..(entry.nt - 1)
          /\ (entry.rewritten
              /\ Cardinality(b.times) = Cardinality(DOMAIN b.file))
                => e.times = 0..(entry.nt - 1)
          /\ ~entry.rewritten =>
                /\ e.times = b.times
                /\ PerSliceMaps(e) = PerSliceMaps(b)

\* a sub-series of two volumes of two slices was rewritten to the keys 0, 1
C5_Witness ==
    \E entry \in TimesLog :
       /\ entry.rewritten
       /\ entry.nt = 2
       /\ Cardinality(entry.before.times) = 4
       /\ studies[entry.key].times = {0, 1}
\* the place of the instance number t among those of the group g, sorted
PlaceIn(K, g, t) == Cardinality({k \in InGroup(K, g) : k[2] < t})

\* every instance number has the same place in every group it occurs in
PlacesAgree(K) ==
    \A k1, k2 \in K :
       k1[2] = k2[2] => PlaceIn(K, <<k1[1], k1[3]>>, k1[2]) = PlaceIn(K, <<k2[1], k2[3]>>, k2[2])

\* C29: the instance-time rewrite loses no file: the file map has as many
\* entries after the rewrite as before it, also when an instance number
\* occurs in two (slice, echo) groups at different sorted positions.
C29_RewriteLosesNoFile ==
    \A entry \in TimesLog :
       entry.rewritten =>
          Cardinality(DOMAIN studies[entry.key].file)
             = Cardinality(DOMAIN entry.before.file)

\* what does hold: the rewrite loses no file when every instance number has
\* the same sorted position in every group it occurs in, and never adds one
Time_RewriteKeepsFilesWhenPlacesAgree ==
    \A entry \in TimesLog :
       entry.rewritten =>
          /\ Cardinality(DOMAIN studies[entry.key].file)
                <= Cardinality(DOMAIN entry.before.file)
          /\ PlacesAgree(DOMAIN entry.before.file) =>
                Cardinality(DOMAIN studies[entry.key].file)
                   = Cardinality(DOMAIN entry.before.file)

\* C12: at every point of scanAll (after each file is accumulated and after
\* the instance-time rewrite of each sub-series) the maps file, end, pixels,
\* rescale, mosaic, dtimes and descrip of every sub-series Entity have
\* exactly the same set of (slice, time, echo) keys.
C12_PerSliceMapsShareKeys ==
    \A key \in DOMAIN studies : \A i \in 1..7 :
       DOMAIN PerSliceMaps(studies[key])[i] = DOMAIN studies[key].file

\* a sub-series of two slices and two volumes went through the rewrite
C12_Witness ==
    /\ pc = "missing"
    /\ \E entry \in TimesLog :
          /\ entry.rewritten
          /\ Cardinality(DOMAIN studies[entry.key].file) = 4
          /\ Cardinality(DOMAIN entry.before.file) = 4
          /\ DOMAIN studies[entry.key].file # DOMAIN entry.before.file

\* the number of file keys of e at time t and echo ec
FilesAt(e, t, ec) == Cardinality({k \in DOMAIN e.file : k[2] = t /\ k[3] = ec})

MissingWarned == \E i \in DOMAIN warnings : warnings[i].err = WarnMissingSlices

\* C13: after scanAll, for every time key in times paired with every echo in
\* echoes of a sub-series, missing[(time, echo)] is the number of slice
\* indices minus the number of file keys with that time and echo, and a
\* missing-slices warning is tallied iff some such value is positive.
C13_MissingForEveryTimeEcho ==
    pc \in {"tally", "done"} =>
       /\ \A key \in DOMAIN studies : \A t \in studies[key].times :
             \A ec \in studies[key].echoes :
                /\ <<t, ec>> \in DOMAIN studies[key].missing
                /\ studies[key].missing[<<t, ec>>]
                      = Cardinality(studies[key].slices) - FilesAt(studies[key], t, ec)
       /\ MissingWarned <=>
             \E key \in DOMAIN studies : \E t \in studies[key].times :
                \E ec \in studies[key].echoes :
                   Cardinality(studies[key].slices) - FilesAt(studies[key], t, ec) > 0

\* what does hold: missing has an entry for exactly the (time, echo) pairs
\* that occur in a file key, with that value, and the warning is tallied iff
\* one of these entries is positive
Missing_CountsPairsWithFiles ==
    pc \in {"tally", "done"} =>
       /\ \A key \in DOMAIN studies :
             /\ DOMAIN studies[key].missing
                   = {<<k[2], k[3]>> : k \in DOMAIN studies[key].file}
             /\ \A te \in DOMAIN studies[key].missing :
                   studies[key].missing[te]
                      = Cardinality(studies[key].slices)
                           - FilesAt(studies[key], te[1], te[2])
       /\ MissingWarned <=>
             \E key \in DOMAIN studies : \E te \in DOMAIN studies[key].missing :
                studies[key].missing[te] > 0

(***************************************************************************)
(* Properties of the values stored per sub-series                          *)
(***************************************************************************)
\* the iterations that filed the file now recorded under some key of e.file
FiledIn(e) ==
    {entry \in ScanLog :
        /\ entry.outcome = "ok"
        /\ \E k \in DOMAIN e.file : e.file[k] = entry.path}

\* the Entity e holds the values scanAll extracted in the iteration entry
HoldsValuesOf(e, entry) ==
    /\ e.shape = entry.slice.shape
    /\ e.res = entry.slice.res
    /\ e.desc = entry.slice.desc
    /\ e.type = entry.slice.type
    /\ e.tr = entry.slice.tr
    /\ e.flip = entry.slice.flip

\* C14: within one sub-series shape, res, desc, type, tr and flip are
\* constant: every file recorded in the file map of the sub-series has the
\* in-plane size, resolution, description, image type, TR and flip angle
\* that are stored on the Entity.
C14_SeriesValuesConstant ==
    \A key \in DOMAIN studies : \A entry \in FiledIn(studies[key]) :
       HoldsValuesOf(studies[key], entry)

\* what does hold: the Entity holds the values of one file that was filed
\* in it (the file that created it)
Series_HoldsValuesOfOneFile ==
    \A key \in DOMAIN studies : \E entry \in ScanLog :
       /\ entry.outcome = "ok"
       /\ HoldsValuesOf(studies[key], entry)

(***************************************************************************)
(* Properties of the tag fallbacks                                         *)
(***************************************************************************)
\* the file parses, passes the filters and has every tag that has no
\* fallback, the geometry tags, the instance number and the resolution tags
\* left aside
Complete(h) ==
    /\ h.hdr = ""
    /\ h.descOK
    /\ h.hasType
    /\ h.typeOK
    /\ h.hasReq
    /\ h.hasADate
    /\ h.hasATime

\* the first visits of such files: the log entry with the file's header
Visited(h, entry) == entry.read = 1 /\ files[entry.pos + 1] = h /\ Complete(h)

NoGeometryError == "no geometry, no --stack-unk, skipping file"

\* C19: with stackunk a file that lacks (0020,0037) or (0020,0032) is
\* accepted and filed in a sub-series with the suffix unk, whatever the
\* other options (slice3d included) and whether or not it has an instance
\* number; without stackunk and sliceinst it is dropped with the geometry
\* error.
C19_StackUnkAcceptsFilesWithoutGeometry ==
    \A entry \in ScanLog : \A h \in Range(files) :
       (Visited(h, entry) /\ ~h.geom) =>
          /\ opts.stackunk =>
                /\ entry.outcome = "ok"
                /\ entry.key.suff = "unk"
          /\ (~opts.stackunk /\ ~opts.sliceinst) =>
                /\ entry.outcome = "err"
                /\ entry.why = NoGeometryError

\* what does hold: with stackunk (or sliceinst) the file is accepted iff
\* slice3d is off and the file has an instance number, and its suffix is unk
\* iff splitorient is on; with slice3d, or without an instance number, it is
\* dropped as missing an element
StackUnk_AcceptedIffInstanceAndNotSlice3d ==
    \A entry \in ScanLog : \A h \in Range(files) :
       (Visited(h, entry) /\ ~h.geom) =>
          /\ (opts.stackunk \/ opts.sliceinst) =>
                /\ entry.outcome = "ok" <=> (~opts.slice3d /\ h.hasInst)
                /\ entry.outcome = "ok" =>
                      entry.key.suff = (IF opts.splitorient THEN "unk" ELSE "")
                /\ opts.slice3d =>
                      entry.why = MissingElement("0x0020,0x0032")
                /\ (~opts.slice3d /\ ~h.hasInst) =>
                      entry.why = MissingElement("0x0020,0x0013")
          /\ (~opts.stackunk /\ ~opts.sliceinst) =>
                /\ entry.outcome = "err"
                /\ entry.why = NoGeometryError

\* C21 (as stated): with sliceinst a file that has the geometry tags keeps
\* its own orientation and its geometric slice index; only a file without
\* them gets the identity orientation and its instance number as slice.
C21_SliceInstOnlyWithoutGeometry ==
    \A entry \in ScanLog : \A h \in Range(files) :
       (opts.sliceinst /\ Visited(h, entry) /\ entry.outcome = "ok") =>
          /\ h.geom => /\ entry.slice.orientt = h.orient
                       /\ entry.slice.slice = h.slice
          /\ ~h.geom => /\ entry.slice.orientt = Identity
                        /\ entry.slice.slice = h.inst

\* C21 (amended): with sliceinst every accepted file, with or without the
\* geometry tags, gets the identity orientation, and its slice index is its
\* instance number unless slice3d is set (then the geometric one); without
\* sliceinst a file with the geometry tags keeps its orientation and its
\* geometric slice index.
C21_SliceInstForEveryFile ==
    \A entry \in ScanLog : \A h \in Range(files) :
       (Visited(h, entry) /\ entry.outcome = "ok") =>
          /\ opts.sliceinst =>
                /\ entry.slice.orientt = Identity
                /\ entry.slice.slice = (IF opts.slice3d THEN h.slice ELSE h.inst)
          /\ (~opts.sliceinst /\ h.geom) =>
                /\ entry.slice.orientt = h.orient
                /\ entry.slice.slice = h.slice

\* a sagittal file with geometry tags was filed under sliceinst with the
\* identity orientation and its instance number
C21_Witness ==
    /\ pc = "done"
    /\ opts.sliceinst
    /\ ~opts.slice3d
    /\ \E entry \in ScanLog : \E h \in Range(files) :
          /\ Visited(h, entry)
          /\ entry.outcome = "ok"
          /\ h.geom
          /\ h.orient = Sagittal
          /\ entry.slice.orientt = Identity
          /\ entry.slice.slice = h.inst
          /\ h.inst # h.slice
          /\ \E key \in DOMAIN studies : studies[key].orient = {Identity}

\* C20: a file with pixel spacing (0028,0030) and neither (0018,0088) nor
\* (0018,0050) is accepted with res = (dx, dy, 1.0) from its own pixel
\* spacing; a file without pixel spacing is dropped with a missing-element
\* error.
C20_ResolutionFallbacks ==
    \A entry \in ScanLog : \A h \in Range(files) :
       (Visited(h, entry) /\ h.geom /\ h.hasInst) =>
          /\ (h.hasPixSp /\ ~h.has88 /\ ~h.has50) =>
                /\ entry.outcome = "ok"
                /\ entry.slice.res = <<h.px, h.px, 1>>
          /\ ~h.hasPixSp =>
                /\ entry.outcome = "err"
                /\ entry.why = MissingElement("0x0028,0x0030")

\* what does hold: the file is accepted in both cases, with res = (1, 1, 1)
\* and the warning that the resolution is unknown; a file that has the pixel
\* spacing and one of the thickness tags keeps its own values
Res_FallbackIsUnitVoxel ==
    \A entry \in ScanLog : \A h \in Range(files) :
       (Visited(h, entry) /\ h.geom /\ h.hasInst) =>
          /\ entry.outcome = "ok"
          /\ (~h.hasPixSp \/ (~h.has88 /\ ~h.has50)) =>
                /\ entry.slice.res = <<1, 1, 1>>
                /\ Tallied(WarnResolution, h.path)
          /\ (h.hasPixSp /\ h.has88) => entry.slice.res = <<h.px, h.px, h.spacing>>
          /\ (h.hasPixSp /\ ~h.has88 /\ h.has50) =>
                entry.slice.res = <<h.px, h.px, h.thick>>

(***************************************************************************)
(* Properties of orientation splitting and rounding                        *)
(***************************************************************************)
\* one series of axial slices and of slices rotated by 5 degrees, scanned
\* with splitorient
AxialAndRotated ==
    /\ opts.splitorient
    /\ {files[i].orient : i \in DOMAIN files} = {Axial, Rotated}

KeysOf(suffixes) == {SubKey(BaseFile.ser, x) : x \in suffixes}

\* C6 (as stated): the scan yields exactly two sub-series whose final keys
\* are <ser> and <ser>o1, or <ser>axi and <ser>obl.
C6_KeysPlainOrShort ==
    (pc = "done" /\ AxialAndRotated) =>
       \/ DOMAIN studies = KeysOf({"", "o1"})
       \/ DOMAIN studies = KeysOf({"axi", "obl"})

\* C6 (amended): the scan yields exactly two sub-series; both planes are
\* nearest to axial, so the short names collide and the final keys are
\* <ser>a and <ser>b, in the order of their lowest instance numbers
\* (<ser>z0000 and <ser>z0001 with nsubseries).
C6_KeysAlphabetic ==
    (pc = "done" /\ AxialAndRotated) =>
       /\ DOMAIN studies = IF opts.nsubseries THEN KeysOf({"z0000", "z0001"})
                           ELSE KeysOf({"a", "b"})
       /\ studies[SubKey(BaseFile.ser, IF opts.nsubseries THEN "z0000" ELSE "a")].orient
             = {files[1].orient}
       /\ \A key \in DOMAIN studies : \A k \in DOMAIN studies[key].file :
             {files[studies[key].file[k] + 1].orient} = studies[key].orient

C6_Witness ==
    /\ pc = "done"
    /\ AxialAndRotated
    /\ Len(files) = MaxFilesSplit
    /\ ~opts.nsubseries
    /\ DOMAIN studies = KeysOf({"a", "b"})

\* the sub-series of the file whose instance number is the (i+1)-th lowest
\* of a list in which every file has a plane and an instance number of its
\* own
BlockAt(i) ==
    CHOOSE key \in DOMAIN studies :
       \E j \in DOMAIN files :
          /\ studies[key].orient = {files[j].orient}
          /\ Cardinality({m \in DOMAIN files : files[m].inst < files[j].inst}) = i

OneBlockPerFile ==
    /\ pc = "rename"
    /\ todo = {}
    /\ Len(files) > 1
    /\ Cardinality(DOMAIN studies) = Len(files)
    /\ \A i, j \in DOMAIN files : i # j => findOrientShort(files[i].orient)
                                               = findOrientShort(files[j].orient)

\* C16: the blocks of a series whose short names collide are named a, b,
\* ..., y in the order of their lowest instance numbers when nsubseries is
\* off and there are at most 25 of them, and otherwise all of them are
\* named z0000, z0001, ... in that order.
C16_AlphaUpTo25ElseAllZ ==
    OneBlockPerFile =>
       \A i \in 0..(Len(files) - 1) :
          BlockAt(i).suff = IF ~opts.nsubseries /\ Len(files) <= 25
                            THEN Letters[i + 1] ELSE z_ser(i)

\* what does hold: without nsubseries the first 25 blocks are named a..y
\* however many blocks there are, and block i >= 25 is named z<i>; with
\* nsubseries every block i is named z<i>
Names_LettersForFirst25Always ==
    OneBlockPerFile =>
       \A i \in 0..(Len(files) - 1) :
          BlockAt(i).suff = IF ~opts.nsubseries /\ i <= 24
                            THEN Letters[i + 1] ELSE z_ser(i)

\* the iteration a step of the scan has just logged merged a slice with
\* geometry into a known orientation other than its own
MergedStep ==
    /\ pc = "scan"
    /\ Len(log') = Len(log) + 1
    /\ log'[Len(log')].outcome = "ok"
    /\ log'[Len(log')].merged
    /\ ~log'[Len(log')].slice.nogeom
    /\ log'[Len(log')].close # <<log'[Len(log')].slice.orientt>>

\* what C22 says of the merge of the slice of entry (orientation o, image
\* type t) with the known orientation p, between the index before and after
MergeKeepsIndex(entry, before, after) ==
    LET o    == entry.slice.orientt
        p    == entry.close[1]
        pkey == OKey(p, entry.slice.imtype)
        lkey == OKey(lowest(o, p), entry.slice.imtype)
    IN /\ DOMAIN after = ((DOMAIN before) \ {pkey}) \cup {lkey}
       /\ after[lkey] = before[pkey]
       /\ \A k \in (DOMAIN before) \ {pkey, lkey} : after[k] = before[k]
       /\ Cardinality(DOMAIN after) = Cardinality(DOMAIN before)
       /\ entry.key.suff = before[pkey]
       /\ lowest(o, p) \in studies'[entry.key].orient
       /\ p # lowest(o, p) => p \notin studies'[entry.key].orient

\* C22: when a slice with orientation o merges with a known orientation p
\* of its image type, o # p, the index holds lowest(o, p) in place of p with
\* p's suffix, the sub-series's orient set holds lowest(o, p) in place of p,
\* the slice is filed under p's suffix, and the index has as many keys as
\* before.
C22_MergeReplacesKnownByLowest ==
    [][MergedStep =>
          MergeKeepsIndex(log'[Len(log')],
                          IdxOf(orientations, log'[Len(log')].slice.ser),
                          IdxOf(orientations', log'[Len(log')].slice.ser))]_vars

\* what does hold: the same, except that when lowest(o, p) = o is itself a
\* key of the index already, that key takes p's suffix, its own suffix is
\* lost from the index, and the index has one key less
Merge_MayDropAKey ==
    [][MergedStep =>
          LET entry  == log'[Len(log')]
              before == IdxOf(orientations, entry.slice.ser)
              after  == IdxOf(orientations', entry.slice.ser)
              o      == entry.slice.orientt
              p      == entry.close[1]
              lkey   == OKey(lowest(o, p), entry.slice.imtype)
          IN IF lkey \in DOMAIN before /\ lowest(o, p) # p
             THEN /\ after = Put(Del(before, OKey(p, entry.slice.imtype)), lkey,
                                 before[OKey(p, entry.slice.imtype)])
                  /\ Cardinality(DOMAIN after) = Cardinality(DOMAIN before) - 1
                  /\ entry.key.suff = before[OKey(p, entry.slice.imtype)]
             ELSE MergeKeepsIndex(entry, before, after)]_vars

\* no two keys of one series's index hold the same suffix
UniqueSuffixes(ors) ==
    \A s \in DOMAIN ors : \A k1, k2 \in DOMAIN ors[s] :
       k1 # k2 => ors[s][k1] # ors[s][k2]

\* the iteration a step of the scan has just logged gave a slice with
\* geometry a suffix that no key of the index held: a new suffix
NewSuffixStep ==
    /\ pc = "scan"
    /\ opts.splitorient
    /\ Len(log') = Len(log) + 1
    /\ log'[Len(log')].outcome = "ok"
    /\ ~log'[Len(log')].slice.nogeom
    /\ ~log'[Len(log')].merged
    /\ OKey(log'[Len(log')].slice.orientt, log'[Len(log')].slice.imtype)
          \notin DOMAIN IdxOf(orientations, log'[Len(log')].slice.ser)

\* C23: with splitorient no two keys of a series's orientation index ever
\* hold the same suffix, and a newly allocated suffix is one that neither a
\* key of the index nor a sub-series of the series has yet.
C23_SuffixesUnique ==
    [][/\ opts.splitorient => UniqueSuffixes(orientations')
       /\ NewSuffixStep =>
             /\ \A k \in DOMAIN IdxOf(orientations, log'[Len(log')].slice.ser) :
                   IdxOf(orientations, log'[Len(log')].slice.ser)[k]
                      # log'[Len(log')].key.suff
             /\ log'[Len(log')].key \notin DOMAIN studies]_vars

\* what does hold: a new suffix is suffix(number of keys of the index), ""
\* for the first; the index can lose keys in a merge, so the count can
\* name a suffix that is in use
Suffix_CountsKeysOfIndex ==
    [][NewSuffixStep =>
          log'[Len(log')].key.suff
             = suffix(Cardinality(DOMAIN IdxOf(orientations,
                                               log'[Len(log')].slice.ser)))]_vars

\* the first part of C23 alone
Suffix_UniqueInIndex == opts.splitorient => UniqueSuffixes(orientations)

\* the orientations of the files at list positions 1..i
SeenUpTo(i) == {files[j].orient : j \in 1..i}

\* the block index of the file at list position i: the number of
\* orientations seen before the first file of its orientation
BlockOf(i) ==
    Cardinality(SeenUpTo(Min({j \in 1..i : files[j].orient = files[i].orient}) - 1))

\* the slice indices under which the file at list position i is filed
SliceIndicesOf(i) ==
    UNION {{k[1] : k \in {m \in DOMAIN studies[key].file :
                              studies[key].file[m] = files[i].path}} :
              key \in DOMAIN studies}

\* C15: without splitorient, every slice of the b-th orientation block of a
\* series (b = 0 for the first orientation seen) has the slice index
\* 10000.0 * b + its slice value, in whatever order the files of the
\* orientations are visited, so that the blocks occupy disjoint ranges.
C15_SliceOffsetPerOrientationBlock ==
    ~opts.splitorient =>
       \A i \in DOMAIN files : \A x \in SliceIndicesOf(i) :
          x = SliceOffset * BlockOf(i) + files[i].slice

\* what does hold: the offset is 10000.0 times the number of orientations
\* the series has seen before the file's own visit, its own excluded when
\* new; a file of an earlier block that follows a file of a later block is
\* put into the later block's range
Slice_OffsetCountsOrientationsSeen ==
    ~opts.splitorient =>
       \A i \in DOMAIN files : \A x \in SliceIndicesOf(i) :
          x = SliceOffset * (Cardinality(SeenUpTo(i)) - 1) + files[i].slice

\* the known orientations of the slice's image type that are within the
\* threshold of the slice on both angles
CloseSet(entry) ==
    {k \in DOMAIN entry.idx0 :
        /\ k.t = entry.slice.imtype
        /\ angle(entry.slice.orientt, k.o)[1] < opts.roundorientthresh
        /\ angle(entry.slice.orientt, k.o)[2] < opts.roundorientthresh}

\* the iterations that reached the rounding with a slice that has geometry
Rounded_Entries == {entry \in ScanLog : entry.slice # Nil /\ ~entry.slice.nogeom}

Upper == <<"A", "B", "C", "D", "E", "F", "G", "H", "I", "J", "K", "L", "M",
           "N", "O", "P", "Q", "R", "S", "T", "U", "V", "W", "X", "Y", "Z">>

Code(c) == 64 + CHOOSE i \in 1..26 : Upper[i] = c

Str2(a, b) == <<Code(a), Code(b)>>

DICM == <<Code("D"), Code("I"), Code("C"), Code("M")>>

\* every length of 2^31 bytes or more reads or skips to the end of the file
Huge == 2147483647

AllOnes == <<255, 255, 255, 255>>

\* struct.unpack(end + "H", b)[0]
U16(b, end) == IF end = "<" THEN b[1] + 256 * b[2] ELSE 256 * b[1] + b[2]

\* struct.unpack(end + "h", b)[0]
S16(b, end) == IF U16(b, end) >= 32768 THEN U16(b, end) - 65536 ELSE U16(b, end)

Low31(b1, b2, b3, b4) == b1 + 256 * b2 + 65536 * b3 + 16777216 * b4

\* struct.unpack(end + "I", b)[0], capped at Huge
U32LE(b) == IF b[4] >= 128 THEN Huge ELSE Low31(b[1], b[2], b[3], b[4])

U32(b, end) == IF end = "<" THEN U32LE(b) ELSE U32LE(<<b[4], b[3], b[2], b[1]>>)

\* struct.unpack(end + "i", b)[0]
S32LE(b) ==
    IF b[4] >= 128 THEN Low31(b[1], b[2], b[3], b[4] - 128) - Huge - 1
    ELSE Low31(b[1], b[2], b[3], b[4])

S32(b, end) == IF end = "<" THEN S32LE(b) ELSE S32LE(<<b[4], b[3], b[2], b[1]>>)

\* self.fh.seek(pos); self.fh.read(k): short at the end of the file
ReadAt(pos, k) ==
    IF pos >= Len(rdFile) THEN <<>>
    ELSE SubSeq(rdFile, pos + 1, IF k >= Len(rdFile) - pos THEN Len(rdFile) ELSE pos + k)

\* self.fh.tell() after that read
After(pos, k) ==
    IF pos >= Len(rdFile) THEN pos
    ELSE IF k >= Len(rdFile) - pos THEN Len(rdFile) ELSE pos + k

\* self.fh.tell() after self.fh.seek(k, 1) from pos
Skip(pos, k) == IF k >= Huge - pos THEN Huge ELSE pos + k

(***************************************************************************)
(* DicomDict: the entries of dic/dicomV3.dic for the tags of the files     *)
(* below.  A multiplicity "a-b" is the pair <<a, b>>, with -1 for a part   *)
(* that int() rejects ("n").                                               *)
(***************************************************************************)
DictVR ==
    (<<2, 0>> :> Str2("U", "L")) @@ (<<2, 1>> :> Str2("O", "B")) @@
    (<<2, 16>> :> Str2("U", "I")) @@ (<<2, 19>> :> Str2("S", "H")) @@
    (<<8, 8>> :> Str2("C", "S")) @@ (<<8, 96>> :> Str2("C", "S")) @@
    (<<8, 4416>> :> Str2("S", "Q")) @@ (<<32, 19>> :> Str2("I", "S")) @@
    (<<40, 16>> :> Str2("U", "S")) @@ (<<32736, 16>> :> Str2("O", "W"))

DictMult ==
    (<<2, 0>> :> <<1>>) @@ (<<2, 1>> :> <<1>>) @@ (<<2, 16>> :> <<1>>) @@
    (<<2, 19>> :> <<1>>) @@ (<<8, 8>> :> <<1, -1>>) @@ (<<8, 96>> :> <<1>>) @@
    (<<8, 4416>> :> <<1>>) @@ (<<32, 19>> :> <<1>>) @@ (<<40, 16>> :> <<1>>) @@
    (<<32736, 16>> :> <<1>>)

(***************************************************************************)
(* convertVal                                                              *)
(***************************************************************************)
StringVRs ==
    {Str2("A", "E"), Str2("A", "S"), Str2("C", "S"), Str2("D", "A"),
     Str2("D", "S"), Str2("D", "T"), Str2("I", "S"), Str2("L", "O"),
     Str2("L", "T"), Str2("O", "B"), Str2("O", "W"), Str2("P", "N"),
     Str2("S", "H"), Str2("S", "T"), Str2("T", "M"), Str2("U", "I"),
     Str2("U", "N"), Str2("U", "T")}

\* the characters str.rstrip() removes
Whitespace == {9, 10, 11, 12, 13, 32}

RECURSIVE RStrip(_)
RStrip(b) ==
    IF b # <<>> /\ b[Len(b)] \in Whitespace THEN RStrip(SubSeq(b, 1, Len(b) - 1))
    ELSE b

\* drops one trailing NUL of an even-length string
Unpad(b) ==
    IF Len(b) > 1 /\ Len(b) % 2 = 0 /\ b[Len(b)] = 0 THEN SubSeq(b, 1, Len(b) - 1)
    ELSE b

Backslash == 92

\* b.split("\\", max) from position i on, cur being the part collected so
\* far; max < 0 splits without limit
RECURSIVE SplitFrom(_, _, _, _)
SplitFrom(b, i, cur, max) ==
    IF i > Len(b) THEN <<cur>>
    ELSE IF b[i] = Backslash /\ max # 0
         THEN <<cur>> \o SplitFrom(b, i + 1, <<>>, IF max > 0 THEN max - 1 ELSE max)
         ELSE SplitFrom(b, i + 1, Append(cur, b[i]), max)

StrVal(b) == [kind |-> "str", v |-> b]

IntVal(i) == [kind |-> "int", v |-> i]

Raised(what) == [kind |-> "raise", v |-> what]

\* tuple(vf), unwrapped when it has one element
Unwrap(items) == IF Len(items) = 1 THEN items[1] ELSE [kind |-> "tuple", v |-> items]

SplitByMult(b, mult) ==
    IF Len(mult) = 1 /\ mult[1] = 1 THEN <<b>>
    ELSE IF Len(mult) = 1 /\ mult[1] > 1 THEN SplitFrom(b, 1, <<>>, mult[1] - 1)
    ELSE IF Len(mult) > 1 /\ mult[2] # -1 THEN SplitFrom(b, 1, <<>>, mult[2] - 1)
    ELSE SplitFrom(b, 1, <<>>, -1)

ConvertString(de, b) ==
    Unwrap([i \in DOMAIN SplitByMult(b, IF de \in DOMAIN DictMult THEN DictMult[de] ELSE <<1>>)
              |-> StrVal(SplitByMult(b, IF de \in DOMAIN DictMult THEN DictMult[de]
                                        ELSE <<1>>)[i])])

\* one number of the format fmt
Number(fmt, b, end) ==
    IF fmt = "H" THEN IntVal(U16(b, end))
    ELSE IF fmt = "h" THEN IntVal(S16(b, end))
    ELSE IF fmt = "I" THEN IntVal(U32(b, end))
    ELSE IF fmt = "i" THEN IntVal(S32(b, end))
    ELSE [kind |-> "float", v |-> <<end, b>>]

\* struct.unpack(end + fmt * (vl / w), vf) for a format of w bytes
ConvertNumbers(vl, vf, w, fmt, end) ==
    IF Len(vf) # w * (vl \div w) THEN Raised("struct.error")
    ELSE Unwrap([i \in 1..(vl \div w) |->
                   Number(fmt, SubSeq(vf, w * (i - 1) + 1, w * i), end)])

convertVal(de, vr, vl, vf, end) ==
    IF vr \in StringVRs THEN ConvertString(de, Unpad(RStrip(vf)))
    ELSE IF vr = Str2("A", "T") THEN ConvertNumbers(vl, vf, 2, "H", end)
    ELSE IF vr = Str2("F", "L") THEN ConvertNumbers(vl, vf, 4, "f", end)
    ELSE IF vr = Str2("F", "D") THEN ConvertNumbers(vl, vf, 8, "d", end)
    ELSE IF vr = Str2("S", "L") THEN ConvertNumbers(vl, vf, 4, "i", end)
    ELSE IF vr = Str2("S", "S") THEN ConvertNumbers(vl, vf, 2, "h", end)
    ELSE IF vr = Str2("U", "L") THEN ConvertNumbers(vl, vf, 4, "I", end)
    ELSE IF vr = Str2("U", "S") THEN ConvertNumbers(vl, vf, 2, "H", end)
    ELSE Raised("unknown VR")

(***************************************************************************)
(* DicomReader.readFields: one action per iteration of its loop.  The      *)
(* locals of the innermost call are the rd* variables; a recursive call    *)
(* pushes the locals of its caller on rdStack and a return pops them.  An  *)
(* exception leaves every call and is replaced in readHeader.              *)
(***************************************************************************)
RECURSIVE Digits(_)
Digits(i) == IF i < 10 THEN <<48 + i>> ELSE Append(Digits(i \div 10), 48 + (i % 10))

Dot == 46

RECURSIVE Uid(_)
Uid(parts) ==
    IF Len(parts) = 1 THEN Digits(parts[1])
    ELSE Uid(SubSeq(parts, 1, Len(parts) - 1)) \o <<Dot>> \o Digits(parts[Len(parts)])

ImplicitLE == Uid(<<1, 2, 840, 10008, 1, 2>>)

ExplicitLE == Uid(<<1, 2, 840, 10008, 1, 2, 1>>)

ExplicitBE == Uid(<<1, 2, 840, 10008, 1, 2, 2>>)

DicomError(reason) == [type |-> "DicomError", reason |-> reason, masked |-> ""]

\* what readHeader raises in place of any exception of readFields; masked
\* is history, the exception that was replaced
Masked(inner) ==
    [type |-> "DicomError", reason |-> "failure reading header", masked |-> inner]

ReadFails(err, pos, end, tr) ==
    /\ rdPc' = "failed"
    /\ rdErr' = err
    /\ rdPos' = pos
    /\ rdEnd' = end
    /\ rdTrace' = tr
    /\ rdVals' = Empty
    /\ rdVf' = Unbound
    /\ rdStack' = <<>>
    /\ UNCHANGED <<rdFile, rdAcr, rdFlat, rdStartb, rdMaxbytes, rdImplicit,
                   rdSwEndian, rdSwImplicit, rdSwitchAt>>

\* on to the next iteration of the same call
Continue(pos, c, vals, vf, tr) ==
    /\ rdPc' = "fields"
    /\ rdPos' = pos
    /\ rdEnd' = c.end
    /\ rdImplicit' = c.imp
    /\ rdSwEndian' = c.swE
    /\ rdSwImplicit' = c.swI
    /\ rdSwitchAt' = c.swAt
    /\ rdVals' = vals
    /\ rdVf' = vf
    /\ rdTrace' = tr
    /\ UNCHANGED <<rdFile, rdAcr, rdFlat, rdStartb, rdMaxbytes, rdStack, rdErr>>

\* vf = self.readFields(maxbytes=vl, implicit=implicit)
Push(de, vl, body, c, tr) ==
    /\ rdStack' = Append(rdStack, [de |-> de, startb |-> rdStartb,
                                   maxbytes |-> rdMaxbytes, imp |-> c.imp,
                                   swE |-> c.swE, swI |-> c.swI, swAt |-> c.swAt,
                                   vals |-> rdVals])
    /\ rdPc' = "fields"
    /\ rdPos' = body
    /\ rdEnd' = c.end
    /\ rdStartb' = body
    /\ rdMaxbytes' = vl
    /\ rdImplicit' = c.imp
    /\ rdSwEndian' = 0
    /\ rdSwImplicit' = 0
    /\ rdSwitchAt' = 0
    /\ rdVals' = Empty
    /\ rdVf' = Unbound
    /\ rdTrace' = tr
    /\ UNCHANGED <<rdFile, rdAcr, rdFlat, rdErr>>

\* the string "(flattened)"
Flattened == StrVal(<<40, 102, 108, 97, 116, 116, 101, 110, 101, 100, 41>>)

\* the caller fr goes on with the map vf of the call that returned
Resume(fr, vf, pos, end, tr) ==
    /\ rdStack' = SubSeq(rdStack, 1, Len(rdStack) - 1)
    /\ rdPc' = "fields"
    /\ rdPos' = pos
    /\ rdEnd' = end
    /\ rdStartb' = fr.startb
    /\ rdMaxbytes' = fr.maxbytes
    /\ rdImplicit' = fr.imp
    /\ rdSwEndian' = fr.swE
    /\ rdSwImplicit' = fr.swI
    /\ rdSwitchAt' = fr.swAt
    /\ rdVf' = IF rdFlat THEN Flattened ELSE [kind |-> "map", v |-> vf]
    /\ rdVals' = IF rdFlat THEN Put(vf @@ fr.vals, fr.de, Flattened)
                 ELSE Put(fr.vals, fr.de, [kind |-> "map", v |-> vf])
    /\ rdTrace' = tr
    /\ UNCHANGED <<rdFile, rdAcr, rdFlat, rdErr>>

\* break; return myvals
Return(pos, c, tr) ==
    IF rdStack = <<>>
    THEN /\ rdPc' = "done"
         /\ rdPos' = pos
         /\ rdEnd' = c.end
         /\ rdImplicit' = c.imp
         /\ rdSwEndian' = c.swE
         /\ rdSwImplicit' = c.swI
         /\ rdTrace' = tr
         /\ UNCHANGED <<rdFile, rdAcr, rdFlat, rdStartb, rdMaxbytes, rdSwitchAt,
                        rdVals, rdVf, rdStack, rdErr>>
    ELSE Resume(rdStack[Len(rdStack)], rdVals, pos, c.end, tr)

\* lines 657-667: the transfer syntax stages a switch
TransferSyntax(de, vf, pos, c, tr) ==
    IF vf = StrVal(ImplicitLE)
    THEN Continue(pos, [c EXCEPT !.swI = 1], Put(rdVals, de, vf), vf, tr)
    ELSE IF vf = StrVal(ExplicitLE)
    THEN Continue(pos, [c EXCEPT !.swE = 0], Put(rdVals, de, vf), vf, tr)
    ELSE IF vf = StrVal(ExplicitBE)
    THEN Continue(pos, [c EXCEPT !.swE = 1], Put(rdVals, de, vf), vf, tr)
    ELSE ReadFails(Masked("unhandled TS"), pos, c.end, tr)

\* lines 653-667.  value_start + vf is a number only for a number vf; the
\* sum with a float (VR FL, FD), a float, is outside this model
Stage(de, vf, pos, c, tr) ==
    IF de = <<2, 0>> /\ vf.kind = "float" THEN
        /\ rdPc' = "unmodelled"
        /\ UNCHANGED <<rdFile, rdAcr, rdFlat, rdPos, rdEnd, rdStartb, rdMaxbytes,
                       rdImplicit, rdSwEndian, rdSwImplicit, rdSwitchAt, rdVals,
                       rdVf, rdStack, rdErr, rdTrace>>
    ELSE IF de = <<2, 0>> /\ vf.kind # "int"
    THEN ReadFails(Masked("TypeError"), pos, c.end, tr)
    ELSE IF de = <<2, 0>>
    THEN Continue(pos, [c EXCEPT !.swAt = Skip(rdPos, vf.v)], Put(rdVals, de, vf), vf, tr)
    ELSE IF de = <<2, 16>> THEN TransferSyntax(de, vf, pos, c, tr)
    ELSE Continue(pos, c, Put(rdVals, de, vf), vf, tr)

\* lines 646-650
Converted(de, vf, pos, c, tr) ==
    IF vf.kind = "raise" THEN ReadFails(Masked("VR error"), pos, c.end, tr)
    ELSE Stage(de, vf, pos, c, tr)

\* lines 612-651: the value field, which starts at body
Value(de, vr, vl, ones, body, c, tr) ==
    IF vr = Str2("S", "Q") \/ ones
    THEN IF vl > 0 THEN Push(de, vl, body, c, tr)
         ELSE IF rdVf = Unbound
         THEN ReadFails(Masked("UnboundLocalError"), body, c.end, tr)
         ELSE Continue(body, c, Put(rdVals, de, rdVf), rdVf, tr)
    ELSE IF de = <<32736, 16>>
    THEN Stage(de, [kind |-> "pixel", v |-> <<body, vl>>], Skip(body, vl), c, tr)
    ELSE IF de = <<41, 4112>> \/ de = <<41, 4128>>
    THEN Stage(de, [kind |-> "CSA", v |-> ReadAt(body, vl)], After(body, vl), c, tr)
    ELSE Converted(de, convertVal(de, vr, vl, ReadAt(body, vl), c.end),
                   After(body, vl), c, tr)

LongVRs == {Str2("O", "B"), Str2("O", "W"), Str2("S", "Q"), Str2("U", "N")}

\* a 32-bit length at pos
Long(de, vr, b, pos, c, tr) ==
    IF Len(b) < 4 THEN ReadFails(Masked("struct.error"), After(pos, 4), c.end, tr)
    ELSE Value(de, vr, U32(b, c.end), b = AllOnes, pos + 4, c, tr)

\* lines 601-610
Explicit(de, vr, tmp, c, tr) ==
    IF Len(tmp) < 2 THEN ReadFails(Masked("struct.error"), After(rdPos + 4, 4), c.end, tr)
    ELSE IF vr \in LongVRs THEN Long(de, vr, ReadAt(rdPos + 8, 4), rdPos + 8, c, tr)
    ELSE Value(de, vr, U16(tmp, c.end), FALSE, rdPos + 8, c, tr)

\* lines 590-610
Length(de, c, tr) ==
    IF c.imp # 0
    THEN Long(de, IF de \in DOMAIN DictVR THEN DictVR[de] ELSE Str2("U", "N"),
              ReadAt(rdPos + 4, 4), rdPos + 4, c, tr)
    ELSE Explicit(de, ReadAt(rdPos + 4, 2), ReadAt(rdPos + 6, 2), c, tr)

Parsed(de, c) ==
    [start |-> rdPos, de |-> de, end |-> c.end, implicit |-> c.imp,
     depth |-> Len(rdStack)]

\* lines 576-588
Element(de, c) ==
    IF de = <<65534, 57565>> THEN Return(After(rdPos + 4, 4), c, Append(rdTrace, Parsed(de, c)))
    ELSE IF de[1] = 65534
    THEN Continue(After(rdPos + 4, 4), c, rdVals, rdVf, Append(rdTrace, Parsed(de, c)))
    ELSE Length(de, c, Append(rdTrace, Parsed(de, c)))

\* lines 567-577
Loop(de, c) ==
    IF rdMaxbytes > 0 /\ rdPos >= Skip(rdStartb, rdMaxbytes) THEN Return(rdPos, c, rdTrace)
    ELSE IF de = <<>> THEN Return(rdPos, c, rdTrace)
    ELSE IF Len(de) < 4
    THEN ReadFails(Masked("struct.error"), After(rdPos, 4), c.end, rdTrace)
    ELSE Element(<<U16(SubSeq(de, 1, 2), c.end), U16(SubSeq(de, 3, 4), c.end)>>, c)

\* a staged switch whose position is reached
Due(switch) == switch # 0 /\ rdPos >= rdSwitchAt

ReadField ==
    /\ rdPc = "fields"
    /\ Loop(ReadAt(rdPos, 4),
            [end  |-> IF Due(rdSwEndian) THEN ">" ELSE rdEnd,
             swE  |-> IF Due(rdSwEndian) THEN 0 ELSE rdSwEndian,
             imp  |-> IF Due(rdSwImplicit) THEN 1 ELSE rdImplicit,
             swI  |-> IF Due(rdSwImplicit) THEN 0 ELSE rdSwImplicit,
             swAt |-> rdSwitchAt])
    /\ UNCHANGED <<scanVars, giplVars, libVars>>

(***************************************************************************)
(* DicomReader.readHeader up to the call of readFields                     *)
(***************************************************************************)
checkType == ReadAt(128, 4) = DICM

\* self.end after checkACR returns 1 for the first word zero, "" when it
\* returns False
checkACRRange(zero) ==
    IF zero \in 1..8 THEN rdEnd
    ELSE IF zero \in 256..2048 THEN ">"
    ELSE ""

checkACR(zero) ==
    IF zero \in 1..8 THEN rdEnd
    ELSE IF zero \in {256 * k : k \in 1..8} THEN ">"
    ELSE ""

\* self.readFields(implicit=implicit) is entered at pos
Enter(pos, end, implicit) ==
    /\ rdPc' = "fields"
    /\ rdPos' = pos
    /\ rdEnd' = end
    /\ rdStartb' = pos
    /\ rdImplicit' = implicit
    /\ UNCHANGED <<rdFile, rdAcr, rdFlat, rdMaxbytes, rdSwEndian, rdSwImplicit,
                   rdSwitchAt, rdVals, rdVf, rdStack, rdErr, rdTrace>>

Fallback(prefix) ==
    IF Len(prefix) < 2
    THEN ReadFails([type |-> "struct.error", reason |-> "", masked |-> ""],
                   After(0, 2), rdEnd, rdTrace)
    ELSE IF checkACR(U16(prefix, "<")) # ""
    THEN Enter(0, checkACR(U16(prefix, "<")), 1)
    ELSE ReadFails(DicomError("not a DICOM or (probably) ACR file"), 2, rdEnd, rdTrace)

ReadHeader ==
    /\ rdPc = "header"
    /\ IF checkType THEN Enter(132, rdEnd, 0)
       ELSE IF rdAcr THEN Fallback(ReadAt(0, 2))
       ELSE ReadFails(DicomError("not a DICOM file"), After(128, 4), rdEnd, rdTrace)
    /\ UNCHANGED <<scanVars, giplVars, libVars>>

ReadNext == ReadHeader \/ ReadField
(***************************************************************************)
(* Specification SpecRead: readHeader over part 10 files (preamble, "DICM",*)
(* a group 0002 with its length, a transfer syntax and an optional last    *)
(* element, then a data set in the transfer syntax) and over files without *)
(* preamble, one for every first 16-bit word up to MaxWord.                *)
(***************************************************************************)
MaxLast == 5        \* longest value of the last group 0002 element, in bytes

MaxWord == 2304     \* largest first word of a file without preamble (0x0900)

Enc16(v, end) == IF end = "<" THEN <<v % 256, v \div 256>> ELSE <<v \div 256, v % 256>>

Enc32(v, end) ==
    IF end = "<"
    THEN <<v % 256, (v \div 256) % 256, (v \div 65536) % 256, v \div 16777216>>
    ELSE <<v \div 16777216, (v \div 65536) % 256, (v \div 256) % 256, v % 256>>

Tagged(de, end) == Enc16(de[1], end) \o Enc16(de[2], end)

\* one element in the syntax sx = [end, implicit]
Elt(de, vr, val, sx) ==
    IF sx.implicit = 1 THEN Tagged(de, sx.end) \o Enc32(Len(val), sx.end) \o val
    ELSE IF vr \in LongVRs
    THEN Tagged(de, sx.end) \o vr \o <<0, 0>> \o Enc32(Len(val), sx.end) \o val
    ELSE Tagged(de, sx.end) \o vr \o Enc16(Len(val), sx.end) \o val

\* an element of undefined length, closed by a sequence delimiter
UndefElt(de, vr, val, sx) ==
    IF sx.implicit = 1 THEN Tagged(de, sx.end) \o AllOnes \o val
                            \o Tagged(<<65534, 57565>>, sx.end) \o <<0, 0, 0, 0>>
    ELSE Tagged(de, sx.end) \o vr \o <<0, 0>> \o AllOnes \o val
         \o Tagged(<<65534, 57565>>, sx.end) \o <<0, 0, 0, 0>>

Even(b) == IF Len(b) % 2 = 1 THEN Append(b, 0) ELSE b

Meta == [end |-> "<", implicit |-> 0]

JPEGBaseline == Uid(<<1, 2, 840, 10008, 1, 2, 4, 50>>)

TransferSyntaxes == {ImplicitLE, ExplicitLE, ExplicitBE, JPEGBaseline}

SyntaxOf(ts) ==
    IF ts = ImplicitLE THEN [end |-> "<", implicit |-> 1]
    ELSE IF ts = ExplicitBE THEN [end |-> ">", implicit |-> 0]
    ELSE Meta

\* (0002,0013) with a value of k bytes
LastElts ==
    {<<>>} \cup {Elt(<<2, 19>>, Str2("S", "H"), [i \in 1..k |-> Code("V")], Meta) :
                   k \in 0..MaxLast}

MetaRest(ts, last) == Elt(<<2, 16>>, Str2("U", "I"), Even(ts), Meta) \o last

MetaGroup(ts, last) ==
    Elt(<<2, 0>>, Str2("U", "L"), Enc32(Len(MetaRest(ts, last)), "<"), Meta)
       \o MetaRest(ts, last)

Modality(sx) == Elt(<<8, 96>>, Str2("C", "S"), Str2("M", "R"), sx)

Rows(sx) == Elt(<<40, 16>>, Str2("U", "S"), Enc16(64, sx.end), sx)

Item(val, sx) == Tagged(<<65534, 57344>>, sx.end) \o Enc32(Len(val), sx.end) \o val

DataSets(sx) ==
    {Modality(sx) \o Rows(sx),
     Modality(sx) \o Elt(<<8, 4416>>, Str2("S", "Q"), Item(Rows(sx), sx), sx) \o Rows(sx),
     Modality(sx) \o Elt(<<8, 4416>>, Str2("S", "Q"), <<>>, sx) \o Rows(sx),
     Elt(<<8, 4416>>, Str2("S", "Q"),
         Item(Elt(<<8, 4416>>, Str2("S", "Q"), <<>>, sx), sx), sx) \o Rows(sx),
     Modality(sx) \o UndefElt(<<8, 4416>>, Str2("S", "Q"), Item(Rows(sx), sx), sx),
     Modality(sx) \o Elt(<<32736, 16>>, Str2("O", "W"), <<1, 2, 3, 4>>, sx)}

Preamble == [i \in 1..128 |-> 0] \o DICM

Part10With(ts) ==
    {Preamble \o MetaGroup(ts, last) \o ds :
        last \in LastElts, ds \in DataSets(SyntaxOf(ts))}

Part10Files == UNION {Part10With(ts) : ts \in TransferSyntaxes}

\* a file that starts with the word w, read little-endian, as the group of
\* an element (w, 0010) of two bytes
WordFile(w) ==
    IF w % 256 = 0
    THEN Enc16(w, "<") \o Enc16(16, ">") \o Enc32(2, ">") \o Str2("M", "R")
    ELSE Enc16(w, "<") \o Enc16(16, "<") \o Enc32(2, "<") \o Str2("M", "R")

BareFiles == {<<>>, <<1>>} \cup {WordFile(w) : w \in 0..MaxWord}

InitRead ==
    /\ \E f \in Part10Files \cup BareFiles :
       \E acr \in BOOLEAN : \E flat \in BOOLEAN : ReadStart(f, acr, flat)
    /\ ScanIdle
    /\ GiplIdle
    /\ LibIdle

SpecRead == InitRead /\ [][ReadNext]_vars
(***************************************************************************)
(* Properties of readHeader and readFields                                 *)
(***************************************************************************)
HasDICM(f) == Len(f) >= 132 /\ SubSeq(f, 129, 132) = DICM

\* the value of the element at offset 144 of a part 10 file that starts
\* with (0002,0000) and (0002,0010), without its padding
MetaTS(f) == Unpad(RStrip(SubSeq(f, 153, 152 + U16(SubSeq(f, 151, 152), "<"))))

\* the end of group 0002: the end of (0002,0000) plus its value
GroupEnd(f) == 144 + U32(SubSeq(f, 141, 144), "<")

Over == rdPc \in {"done", "failed"}

\* C2: readHeader on a file with "DICM" at offset 128 and a transfer syntax
\* other than the three handled fails with exactly the "unhandled TS"
\* reason.
C2_UnhandledTSReason ==
    (Over /\ HasDICM(rdFile)
          /\ MetaTS(rdFile) \notin {ImplicitLE, ExplicitLE, ExplicitBE}) =>
       /\ rdPc = "failed"
       /\ rdErr.type = "DicomError"
       /\ rdErr.reason = "unhandled TS"

\* what the code does: the "unhandled TS" error is raised and replaced by
\* "failure reading header"
Read_UnhandledTSIsMasked ==
    (Over /\ HasDICM(rdFile)
          /\ MetaTS(rdFile) \notin {ImplicitLE, ExplicitLE, ExplicitBE}) =>
       /\ rdPc = "failed"
       /\ rdErr = Masked("unhandled TS")

\* the element parsed at the trace entry is a sequence of length 0
ZeroLengthSQ(entry) ==
    /\ entry.de = <<8, 4416>>
    /\ IF entry.implicit # 0 THEN ReadAt(entry.start + 4, 4) = <<0, 0, 0, 0>>
       ELSE /\ ReadAt(entry.start + 4, 2) = Str2("S", "Q")
            /\ ReadAt(entry.start + 8, 4) = <<0, 0, 0, 0>>

EmptyMap == [kind |-> "map", v |-> Empty]

\* C30: the value readFields stores for an element depends on that
\* element's bytes alone: a sequence of length 0 is stored as an empty
\* nested map, never as the value of the element parsed before it, and
\* reading it does not fail when it is the first element of its level.
C30_ZeroLengthSQIsEmptyMap ==
    /\ rdPc = "failed" => rdErr # Masked("UnboundLocalError")
    /\ rdPc = "done" =>
          \A i \in DOMAIN rdTrace :
             ZeroLengthSQ(rdTrace[i]) /\ rdTrace[i].depth = 0 =>
                rdVals[rdTrace[i].de] = EmptyMap

\* what does hold: a sequence of length 0 is stored with the value of the
\* element stored before it in the same call, and fails the file (masked
\* as "failure reading header") when nothing was stored before it
Read_ZeroLengthSQTakesLastValue ==
    /\ (rdPc = "failed" /\ rdErr = Masked("UnboundLocalError")) =>
          ZeroLengthSQ(rdTrace[Len(rdTrace)])
    /\ rdPc = "done" =>
          \A i \in DOMAIN rdTrace :
             ZeroLengthSQ(rdTrace[i]) /\ rdTrace[i].depth = 0 =>
                /\ i > 1
                /\ rdTrace[i - 1].depth = 0
                /\ rdTrace[i - 1].de \in DOMAIN rdVals
                /\ rdVals[rdTrace[i].de] = rdVals[rdTrace[i - 1].de]
                /\ rdVals[rdTrace[i].de] # EmptyMap

\* the elements parsed by the outermost call from offset lo on were all
\* parsed in the syntax sx, those before it in the syntax of group 0002
SwitchedAt(lo, sx) ==
    \A i \in DOMAIN rdTrace :
       rdTrace[i].depth = 0 =>
          IF rdTrace[i].start < lo
          THEN rdTrace[i].end = "<" /\ rdTrace[i].implicit = 0
          ELSE rdTrace[i].end = sx.end /\ rdTrace[i].implicit = sx.implicit

\* C8: the syntax staged by (0002,0010) takes effect exactly at the end of
\* group 0002 as computed from (0002,0000): every element that starts
\* before it is parsed in the old syntax and every element that starts at or
\* after it in the new one, whatever the length of the last element of the
\* group.
C8_SwitchAtEndOfGroup ==
    (HasDICM(rdFile) /\ MetaTS(rdFile) \in {ImplicitLE, ExplicitLE, ExplicitBE}) =>
       SwitchedAt(GroupEnd(rdFile), SyntaxOf(MetaTS(rdFile)))

\* what the code does: the switch takes effect at the first element that
\* starts at or after the start of (0002,0000) plus its value, 12 bytes
\* before the end of the group
Read_SwitchAtStartOfLengthPlusValue ==
    (HasDICM(rdFile) /\ MetaTS(rdFile) \in {ImplicitLE, ExplicitLE, ExplicitBE}) =>
       SwitchedAt(GroupEnd(rdFile) - 12, SyntaxOf(MetaTS(rdFile)))

FirstWord == U16(SubSeq(rdFile, 1, 2), "<")

Bare == rdPc = "header" /\ ~HasDICM(rdFile) /\ Len(rdFile) >= 2

Parses(end) == rdPc' = "fields" /\ rdPos' = 0 /\ rdImplicit' = 1 /\ rdEnd' = end

FailsWith(reason) == rdPc' = "failed" /\ rdErr' = DicomError(reason)

\* C9 (as stated): without "DICM" and with the ACR fallback, readHeader
\* parses from offset 0 in implicit little-endian when the first word is in
\* 0x0001..0x0008, in implicit big-endian when it is in 0x0100..0x0800, and
\* fails with "not a DICOM file" for any other word; without the fallback
\* it always fails.
C9_AcrWordRanges ==
    [][Bare =>
         IF ~rdAcr THEN rdPc' = "failed"
         ELSE IF FirstWord \in 1..8 THEN Parses("<")
         ELSE IF FirstWord \in 256..2048 THEN Parses(">")
         ELSE FailsWith("not a DICOM file")]_vars

\* C9 (amended): the big-endian words are the eight words 0x0100, 0x0200,
\* ..., 0x0800 only, and with the fallback enabled the failure reason is
\* "not a DICOM or (probably) ACR file"; "not a DICOM file" is the reason
\* when the fallback is disabled.
C9_AcrWords ==
    [][Bare =>
         IF ~rdAcr THEN FailsWith("not a DICOM file")
         ELSE IF FirstWord \in 1..8 THEN Parses("<")
         ELSE IF FirstWord \in {256 * k : k \in 1..8} THEN Parses(">")
         ELSE FailsWith("not a DICOM or (probably) ACR file")]_vars

\* a file whose first word is 0x0300 is about to be parsed from offset 0 in
\* implicit big-endian
C9_Witness ==
    /\ rdAcr
    /\ ~HasDICM(rdFile)
    /\ Len(rdFile) >= 2
    /\ FirstWord = 768
    /\ rdPc = "fields"
    /\ rdPos = 0
    /\ rdEnd = ">"
    /\ rdImplicit = 1
    /\ rdTrace = <<>>

(***************************************************************************)
(* GiplFile: numbers and struct.pack / struct.unpack                       *)
(*                                                                         *)
(* A Python float is the dyadic rational m / 2^k, kept in lowest terms     *)
(* (k = 0 or m odd) and with |m| < 2^31.  Format "f" keeps 24 significant  *)
(* bits, rounding to nearest even; format "d" holds every such number.     *)
(* Infinities, NaNs and subnormal numbers do not occur.                    *)
(***************************************************************************)
Dy(m, k) == [m |-> m, k |-> k]

RECURSIVE Msb(_)
Msb(a) == IF a < 2 THEN 0 ELSE 1 + Msb(a \div 2)

RECURSIVE TrailingZeros(_)
TrailingZeros(a) == IF a % 2 = 1 THEN 0 ELSE 1 + TrailingZeros(a \div 2)

\* sig * 2^x for an odd sig
OddTimes(sig, x) == IF x >= 0 THEN Dy(sig * 2^x, 0) ELSE Dy(sig, -x)

\* sign * sig * 2^x in lowest terms, for sig > 0
Norm(sign, sig, x) ==
    OddTimes(sign * (sig \div 2^TrailingZeros(sig)), x + TrailingZeros(sig))

\* a shifted right by s bits, rounded to nearest even
RoundShift(a, s) ==
    IF a % 2^s > 2^(s - 1) \/ (a % 2^s = 2^(s - 1) /\ (a \div 2^s) % 2 = 1)
    THEN a \div 2^s + 1
    ELSE a \div 2^s

Sig24(a) == IF Msb(a) <= 23 THEN a * 2^(23 - Msb(a)) ELSE RoundShift(a, Msb(a) - 23)

\* sign bit, biased exponent e and 23 fraction bits, big-endian
F32Bytes(sign, e, frac) ==
    <<128 * sign + e \div 2, 128 * (e % 2) + frac \div 65536,
      (frac \div 256) % 256, frac % 256>>

F32(sign, sig, e) ==
    IF sig = 2^24 THEN F32Bytes(sign, e + 128, 0) ELSE F32Bytes(sign, e + 127, sig - 2^23)

Reverse(b) == [i \in 1..Len(b) |-> b[Len(b) + 1 - i]]

Ordered(b, order) == IF order = ">" THEN b ELSE Reverse(b)

\* struct.pack(order + "f", x)
PackF(x, order) ==
    IF x.m = 0 THEN <<0, 0, 0, 0>>
    ELSE Ordered(F32(IF x.m < 0 THEN 1 ELSE 0, Sig24(Abs(x.m)), Msb(Abs(x.m)) - x.k), order)

F32Value(b) ==
    IF b[1] % 128 = 0 /\ b[2] = 0 /\ b[3] = 0 /\ b[4] = 0 THEN Dy(0, 0)
    ELSE Norm(IF b[1] >= 128 THEN -1 ELSE 1,
              2^23 + 65536 * (b[2] % 128) + 256 * b[3] + b[4],
              2 * (b[1] % 128) + b[2] \div 128 - 150)

\* struct.unpack(order + "f", b)[0]
UnpackF(b, order) == F32Value(Ordered(b, order))

\* sign bit, biased exponent e and the leading 30 of the 52 fraction bits
F64Bytes(sign, e, frac) ==
    <<128 * sign + e \div 16, 16 * (e % 16) + frac \div 2^26,
      (frac \div 2^18) % 256, (frac \div 2^10) % 256, (frac \div 4) % 256,
      64 * (frac % 4), 0, 0>>

\* struct.pack(order + "d", x)
PackD(x, order) ==
    IF x.m = 0 THEN <<0, 0, 0, 0, 0, 0, 0, 0>>
    ELSE Ordered(F64Bytes(IF x.m < 0 THEN 1 ELSE 0, Msb(Abs(x.m)) - x.k + 1023,
                          Abs(x.m) * 2^(30 - Msb(Abs(x.m))) - 2^30), order)

F64Value(b) ==
    IF b[1] % 128 = 0 /\ \A i \in 2..8 : b[i] = 0 THEN Dy(0, 0)
    ELSE Norm(IF b[1] >= 128 THEN -1 ELSE 1,
              2^30 + 2^26 * (b[2] % 16) + 2^18 * b[3] + 2^10 * b[4] + 4 * b[5]
                   + b[6] \div 64,
              16 * (b[1] % 128) + b[2] \div 16 - 1053)

\* struct.unpack(order + "d", b)[0]
UnpackD(b, order) == F64Value(Ordered(b, order))

RECURSIVE Concat(_)
Concat(parts) == IF parts = <<>> THEN <<>> ELSE Head(parts) \o Concat(Tail(parts))

\* self.fh.seek(addr); self.fh.write(b) inside the header h
writeVal(h, addr, b) ==
    [i \in 1..Len(h) |-> IF i > addr /\ i <= addr + Len(b) THEN b[i - addr] ELSE h[i]]

\* self.fh.seek(addr); self.fh.read(w * count), cut into count strings of w bytes
readVal(addr, w, count) ==
    [i \in 1..count |-> SubSeq(gpFile, addr + w * (i - 1) + 1, addr + w * i)]

(***************************************************************************)
(* GiplFile.write and GiplFile.read                                        *)
(***************************************************************************)
Magic == <<42, 227, 137, 184>>          \* 719555000

Magic2 == <<239, 255, 233, 176>>        \* 4026526128

MagicEnd == <<184, 137, 227, 42>>       \* 3096044330

Magic2End == <<176, 233, 255, 239>>     \* 2968125423

MagicExt == 815

One == Dy(1, 0)

Zero == Dy(0, 0)

\* GiplFile.__init__
NewGipl(mode, host) ==
    [mode |-> mode, host |-> host, IS |-> <<1, 1, 1, 1>>, DT |-> 7,
     VS |-> <<One, One, One, One>>, DE |-> <<>>,
     MA |-> <<One, Zero, Zero, Zero, Zero, One, Zero, Zero, Zero, Zero, One, Zero>>,
     RL |-> Zero, RH |-> Zero, OF |-> <<Zero, Zero, Zero, Zero>>,
     order |-> ">", ext |-> TRUE]

StructError == [type |-> "struct.error", reason |-> "", masked |-> ""]

\* numarray is not imported: writeData and alloc stop at that name
NameError == [type |-> "NameError", reason |-> "numarray", masked |-> ""]

RuntimeError(reason) == [type |-> "RuntimeError", reason |-> reason, masked |-> ""]

zeroHeader == [i \in 1..256 |-> 0]

WriteOver(h, err) ==
    /\ gpFile' = h
    /\ gpWErr' = err
    /\ gpPc' = "written"
    /\ UNCHANGED <<gpW, gpR, gpRErr>>

\* lines 256-260
WriteMagic(h) ==
    IF gpW.ext THEN WriteOver(writeVal(h, 244, Enc32(MagicExt, gpW.order)), NameError)
    ELSE WriteOver(h, NameError)

\* lines 250-256
WriteExtended(h) ==
    WriteMagic(writeVal(writeVal(writeVal(writeVal(writeVal(h,
        106, Concat([i \in 1..12 |-> PackF(gpW.MA[i], gpW.order)])),
        188, PackD(gpW.RL, gpW.order)),
        196, PackD(gpW.RH, gpW.order)),
        204, Concat([i \in 1..4 |-> PackD(gpW.OF[i], gpW.order)])),
        252, Ordered(Magic, gpW.order)))

\* line 249
WriteDE(h) ==
    IF Len(gpW.DE) > 80 THEN WriteOver(h, StructError)
    ELSE WriteExtended(writeVal(h, 26, gpW.DE \o [i \in 1..(80 - Len(gpW.DE)) |-> 0]))

\* lines 247-248
WriteDT(h) ==
    IF gpW.DT \notin 0..65535 THEN WriteOver(h, StructError)
    ELSE WriteDE(writeVal(writeVal(h, 8, Enc16(gpW.DT, gpW.order)),
                          10, Concat([i \in 1..4 |-> PackF(gpW.VS[i], gpW.order)])))

\* line 246
WriteIS(h) ==
    IF \E i \in 1..4 : gpW.IS[i] \notin 0..65535 THEN WriteOver(h, StructError)
    ELSE WriteDT(writeVal(h, 0, Concat([i \in 1..4 |-> Enc16(gpW.IS[i], gpW.order)])))

GiplWrite ==
    /\ gpPc = "write"
    /\ IF gpW.mode = "r"
       THEN WriteOver(gpFile, RuntimeError("Called write() with read mode"))
       ELSE WriteIS(zeroHeader)
    /\ UNCHANGED <<scanVars, readVars, libVars>>

ReadOver(r, err) ==
    /\ gpR' = r
    /\ gpRErr' = err
    /\ gpPc' = "read"
    /\ UNCHANGED <<gpW, gpFile, gpWErr>>

\* lines 227-236: the word at 244 is unpacked with format "H"
ReadExtended(r, magic) ==
    IF magic = MagicExt
    THEN ReadOver([r EXCEPT !.RL = UnpackD(readVal(188, 8, 1)[1], r.order),
                            !.RH = UnpackD(readVal(196, 8, 1)[1], r.order),
                            !.MA = [i \in 1..12 |-> UnpackF(readVal(106, 4, 12)[i], r.order)],
                            !.OF = [i \in 1..4 |-> UnpackD(readVal(204, 8, 4)[i], r.order)],
                            !.ext = TRUE], NameError)
    ELSE ReadOver([r EXCEPT !.ext = FALSE], NameError)

\* the first of the 80 characters, without a NUL
FirstChar(c) == IF c = <<0>> THEN <<>> ELSE c

\* lines 222-227
ReadBasic(order) ==
    ReadExtended([gpR EXCEPT !.order = order,
                             !.IS = [i \in 1..4 |-> U16(readVal(0, 2, 4)[i], order)],
                             !.DT = U16(readVal(8, 2, 1)[1], order),
                             !.VS = [i \in 1..4 |-> UnpackF(readVal(10, 4, 4)[i], order)],
                             !.DE = FirstChar(readVal(26, 1, 80)[1])],
                 U16(readVal(244, 2, 1)[1], order))

validFormat(magic) ==
    IF Len(magic) < 4 THEN ReadOver(gpR, StructError)
    ELSE IF magic = Magic \/ magic = Magic2 THEN ReadBasic(gpR.order)
    ELSE IF magic = MagicEnd \/ magic = Magic2End
    THEN ReadBasic(IF gpR.host = "big" THEN "<" ELSE ">")
    ELSE ReadOver(gpR, RuntimeError("Not a GIPL file"))

GiplRead ==
    /\ gpPc = "written"
    /\ validFormat(IF Len(gpFile) >= 256 THEN SubSeq(gpFile, 253, 256) ELSE <<>>)
    /\ UNCHANGED <<scanVars, readVars, libVars>>

GiplNext == GiplWrite \/ GiplRead

(***************************************************************************)
(* Specification SpecGipl: a volume header is written by one GiplFile and  *)
(* the file is read by a fresh one.                                        *)
(***************************************************************************)
MaxDim == 2

Dims == {<<a, b, c, 1>> : a \in 1..MaxDim, b \in 1..MaxDim, c \in 1..MaxDim}
           \cup {<<65536, 1, 1, 1>>}

\* Char, Short, Float
TypeCodes == {7, 15, 64}

\* 1 + 2^-30, a voxel size with more than 24 significant bits
Fine == Dy(2^30 + 1, 30)

VoxelSizes ==
    {<<One, One, One, One>>, <<Dy(15, 4), Dy(15, 4), Dy(3, 0), One>>,
     <<Fine, One, One, One>>}

Origins ==
    {<<Zero, Zero, Zero, Zero>>, <<One, Dy(2, 0), Dy(3, 0), Zero>>,
     <<Dy(-5, 1), Dy(1, 1), Dy(-96, 0), Zero>>}

Descriptions == {<<>>, Str2("A", "B")}

Writers ==
    {[NewGipl("w", "little") EXCEPT !.IS = is, !.DT = dt, !.VS = vs, !.OF = of,
                                    !.DE = de, !.ext = ext] :
        is \in Dims, dt \in TypeCodes, vs \in VoxelSizes, of \in Origins,
        de \in Descriptions, ext \in BOOLEAN}
    \cup {NewGipl("r", "little")}

InitGipl ==
    /\ \E w \in Writers : \E host \in {"little", "big"} :
          /\ gpW = [w EXCEPT !.host = host]
          /\ gpR = NewGipl("r", host)
    /\ gpFile = <<>>
    /\ gpPc = "write"
    /\ gpWErr = NoError
    /\ gpRErr = NoError
    /\ ScanIdle
    /\ ReadIdle
    /\ LibIdle

SpecGipl == InitGipl /\ [][GiplNext]_vars

(***************************************************************************)
(* Properties of the GIPL header                                           *)
(***************************************************************************)
WrittenAndRead ==
    /\ gpPc = "read"
    /\ gpW.mode = "w"
    /\ gpW.ext
    /\ gpWErr # StructError

\* C10: a header written by GiplFile.write with the extended flag set and
\* read by GiplFile.read in a fresh object gives back dims, type code, voxel
\* sizes and origin exactly, the extended magic at offset 244 being
\* recognised.
C10_RoundTrip ==
    WrittenAndRead =>
       /\ gpR.IS = gpW.IS
       /\ gpR.DT = gpW.DT
       /\ gpR.VS = gpW.VS
       /\ gpR.OF = gpW.OF
       /\ gpR.ext

\* what the code does: dims and type code come back, voxel sizes come back
\* rounded to 24 bits, the 4-byte magic written at 244 is read as the
\* 2-byte word 0 and the origin is never read; both calls end in NameError
Gipl_ReadBack ==
    WrittenAndRead =>
       /\ gpR.IS = gpW.IS
       /\ gpR.DT = gpW.DT
       /\ gpR.VS = [i \in 1..4 |-> UnpackF(PackF(gpW.VS[i], ">"), ">")]
       /\ gpR.OF = <<Zero, Zero, Zero, Zero>>
       /\ ~gpR.ext
       /\ gpWErr = NameError
       /\ gpRErr = NameError

(***************************************************************************)
(* OrientedImage (orient.py).                                              *)
(*                                                                         *)
(* Pixel sizes are floats that hold small integers.  The vectors i, j,     *)
(* offset and delta of an image are held in units of 1/u, where u is the   *)
(* length of the integer vector that stands for the unit vector i: u = 1   *)
(* for the planes along the axes, u = 31 for the oblique frames whose      *)
(* direction cosines are multiples of 1/31.  data is a numpy array of      *)
(* three axes: its shape and, at each index, the voxel (named by the index *)
(* it had when the image was constructed).  An axis label is the sequence  *)
(* of its characters.                                                      *)
(***************************************************************************)
\* a flip that always prepends the sign
flipPrepend(s) == <<"-">> \o s

\* orient.py flip(s): re.match(r'-.', s) asks for '-' and one more character
flip(s) == IF Len(s) >= 2 /\ s[1] = "-" THEN Tail(s) ELSE <<"-">> \o s

Neg(v) == [c \in 1..3 |-> -v[c]]

Scaled(v, a) == [c \in 1..3 |-> v[c] * a]

Plus(v, w) == [c \in 1..3 |-> v[c] + w[c]]

Dot3(v, w) == v[1] * w[1] + v[2] * w[2] + v[3] * w[3]

MaxUnits == 31

\* the number u of units the unit vector v is long
Units(v) == CHOOSE u \in 1..MaxUnits : u * u = Dot3(v, v)

Cross(i, j) ==
    << i[2] * j[3] - i[3] * j[2],
       i[3] * j[1] - i[1] * j[3],
       i[1] * j[2] - i[2] * j[1] >>

\* OrientedImage.normk: i x j, in the units of i and j
normk(i, j) == [c \in 1..3 |-> Cross(i, j)[c] \div Units(i)]

\* delta = None
NoDelta == <<>>

\* cos(2 degrees) squared, in millionths (atol = 2.0)
CosAtolSq == 998782

\* OrientedImage.checkSliceDir: 1, -1 or 0; 2 stands for the ValueError.
\* The angle between k and delta is below atol iff the dot product is
\* positive and its square exceeds cos(atol)^2 |k|^2 |delta|^2; it is 0 or
\* 180 degrees when k x delta = 0 and 90 degrees when k . delta = 0.
checkSliceDir(k, delta) ==
    IF delta = NoDelta THEN 1
    ELSE IF Dot3(delta, delta) = 0 THEN 0
    ELSE IF Dot3(k, k) # 0 /\ Cross(k, delta) = <<0, 0, 0>>
    THEN (IF Dot3(k, delta) > 0 THEN 1 ELSE -1)
    ELSE IF Dot3(k, delta) = 0 THEN 2
    ELSE IF Dot3(k, delta) * Dot3(k, delta) * 1000000
            <= CosAtolSq * Dot3(k, k) * Dot3(delta, delta) THEN 2
    ELSE IF Dot3(k, delta) > 0 THEN 1
    ELSE -1

\* the indices of an array of the given shape
Indices(shape) == (0..(shape[1] - 1)) \X (0..(shape[2] - 1)) \X (0..(shape[3] - 1))

NewArray(shape) == [shape |-> shape, vox |-> [x \in Indices(shape) |-> x]]

\* data[::-1,:,:], data[:,::-1,:] or data[:,:,::-1] for axis 1, 2 or 3
Reversed(data, axis) ==
    [data EXCEPT !.vox = [x \in Indices(data.shape) |->
                            data.vox[[x EXCEPT ![axis] = data.shape[axis] - 1 - x[axis]]]]]

\* OrientedImage.__init__; orient is the list of orientations handed over
NewImage(shape, pixdim, orient, offset, delta) ==
    LET i == IF Len(orient) = 1 THEN SubSeq(orient[1], 1, 3) ELSE <<1, 0, 0>>
        j == IF Len(orient) = 1 THEN SubSeq(orient[1], 4, 6) ELSE <<0, 1, 0>>
    IN [data |-> NewArray(shape), pixdim |-> pixdim, i |-> i, j |-> j,
        mixed |-> Len(orient) # 1, offset |-> offset, delta |-> delta,
        axes |-> IF checkSliceDir(normk(i, j), delta) < 0
                 THEN << <<"i">>, <<"j">>, <<"-", "k">> >>
                 ELSE << <<"i">>, <<"j">>, <<"k">> >>]

flipV ==
    /\ imOp # "idle"
    /\ im' = [im EXCEPT
                !.offset = Plus(im.offset,
                                Scaled(im.j, (im.data.shape[2] - 1) * im.pixdim[2])),
                !.j = Neg(im.j),
                !.data = Reversed(im.data, 2),
                !.axes[2] = flip(im.axes[2])]
    /\ imOp' = "flipV"
    /\ UNCHANGED imRet
    /\ UNCHANGED <<scanVars, readVars, giplVars, matchVars, niiVars, csaVars>>

flipH ==
    /\ imOp # "idle"
    /\ im' = [im EXCEPT
                !.offset = Plus(im.offset,
                                Scaled(im.i, (im.data.shape[1] - 1) * im.pixdim[1])),
                !.i = Neg(im.i),
                !.data = Reversed(im.data, 1),
                !.axes[1] = flip(im.axes[1])]
    /\ imOp' = "flipH"
    /\ UNCHANGED imRet
    /\ UNCHANGED <<scanVars, readVars, giplVars, matchVars, niiVars, csaVars>>

\* data.swapaxes(1,2)
Swapped(data) ==
    [shape |-> <<data.shape[1], data.shape[3], data.shape[2]>>,
     vox |-> [x \in Indices(<<data.shape[1], data.shape[3], data.shape[2]>>) |->
                data.vox[<<x[1], x[3], x[2]>>]]]

\* data.transpose(2,0,1)
Transposed(data) ==
    [shape |-> <<data.shape[3], data.shape[1], data.shape[2]>>,
     vox |-> [x \in Indices(<<data.shape[3], data.shape[1], data.shape[2]>>) |->
                data.vox[<<x[2], x[3], x[1]>>]]]

\* OrientedImage.findOrient(style='long'); every other pair of simplified
\* vectors has a name of its own that starts with "Nonstd"
findOrient(img) ==
    IF img.mixed THEN "Mixed"
    ELSE IF simplify(img.i) = <<1, 0, 0>> /\ simplify(img.j) = <<0, 1, 0>> THEN "Axial"
    ELSE IF simplify(img.i) = <<0, 1, 0>> /\ simplify(img.j) = <<0, 0, -1>> THEN "Sagittal"
    ELSE IF simplify(img.i) = <<1, 0, 0>> /\ simplify(img.j) = <<0, 0, -1>> THEN "Coronal"
    ELSE "Nonstd"

\* OrientedImage.recalcDelta
recalcDelta(img) == [img EXCEPT !.delta = Scaled(normk(img.i, img.j), img.pixdim[3])]

\* reOrient, the branch (old, new) = ("Coronal", "Axial") after the swap
\* of j and k: flip k', then flip j' if qfac < 0
CoronalFlips(img, qfac) ==
    LET k1 == [img EXCEPT
                 !.data = Reversed(img.data, 3),
                 !.offset = Plus(img.offset,
                                 Scaled(normk(img.i, img.j),
                                        -((img.data.shape[3] - 1) * img.pixdim[3]))),
                 !.axes[3] = flip(img.axes[3])]
    IN IF qfac < 0
       THEN [k1 EXCEPT
               !.data = Reversed(k1.data, 2),
               !.offset = Plus(k1.offset,
                               Scaled(k1.j, -((k1.data.shape[2] - 1) * k1.pixdim[2]))),
               !.axes[2] = flip(k1.axes[2])]
       ELSE k1

\* reOrient, the branch (old, new) = ("Sagittal", "Axial") after the
\* transposition: flip k', then flip i' if qfac > 0
SagittalFlips(img, qfac) ==
    LET k1 == [img EXCEPT
                 !.data = Reversed(img.data, 3),
                 !.offset = Plus(img.offset,
                                 Scaled(normk(img.i, img.j),
                                        -((img.data.shape[3] - 1) * img.pixdim[3]))),
                 !.axes[3] = flip(img.axes[3])]
    IN IF qfac > 0
       THEN [k1 EXCEPT
               !.data = Reversed(k1.data, 1),
               !.offset = Plus(k1.offset,
                               Scaled(k1.i, -((k1.data.shape[1] - 1) * k1.pixdim[1]))),
               !.axes[1] = flip(k1.axes[1])]
       ELSE k1

\* a permutation of the labels that keeps the third where it is
SagittalAxesKeepK(axes) == <<flip(axes[3]), axes[1], axes[3]>>

\* reOrient, sagittal to axial: i' = -k, j' = i, k' = j
SagittalAxes(axes) == <<flip(axes[3]), axes[1], axes[2]>>

\* the image reOrient(new) leaves behind when it returns True or False
Reoriented(img, new) ==
    LET old  == findOrient(img)
        qfac == checkSliceDir(normk(img.i, img.j), img.delta)
    IN IF old = new THEN img
       ELSE IF old = "Coronal" /\ new = "Axial"
       THEN recalcDelta(CoronalFlips(
               [img EXCEPT
                  !.data = Swapped(img.data),
                  !.j = normk(img.i, img.j),
                  !.pixdim = <<img.pixdim[1], img.pixdim[3], img.pixdim[2]>>,
                  !.axes = <<img.axes[1], img.axes[3], img.axes[2]>>], qfac))
       ELSE IF old = "Sagittal" /\ new = "Axial"
       THEN recalcDelta(SagittalFlips(
               [img EXCEPT
                  !.data = Transposed(img.data),
                  !.j = img.i,
                  !.i = Neg(normk(img.i, img.j)),
                  !.pixdim = <<img.pixdim[3], img.pixdim[1], img.pixdim[2]>>,
                  !.axes = SagittalAxes(img.axes)], qfac))
       ELSE img

OrientNames == {"Axial", "Coronal", "Sagittal", "Mixed"}

\* OrientedImage.reOrient(new); checkSliceDir raises before anything is
\* compared or changed
reOrient(new) ==
    /\ imOp # "idle"
    /\ imOp' = "reOrient"
    /\ IF checkSliceDir(normk(im.i, im.j), im.delta) = 2
       THEN /\ imRet' = <<new, "ValueError">>
            /\ UNCHANGED im
       ELSE /\ im' = Reoriented(im, new)
            /\ imRet' = <<new, IF findOrient(im) = new
                                 \/ (findOrient(im) \in {"Coronal", "Sagittal"}
                                        /\ new = "Axial")
                              THEN "True" ELSE "False">>
    /\ UNCHANGED <<scanVars, readVars, giplVars, matchVars, niiVars, csaVars>>

ImageNext == flipV \/ flipH

ReorientNext == flipV \/ flipH \/ \E new \in OrientNames : reOrient(new)

(***************************************************************************)
(* Specification SpecImage: images of 1 or MaxShape voxels along each      *)
(* axis in the axial, sagittal and coronal planes, in two oblique frames   *)
(* or of mixed orientation, stacked along i x j, against it, with no delta *)
(* or with a zero delta.                                                   *)
(***************************************************************************)
MaxShape == 2

MaxPix == 3

Planes ==
    { << <<1, 0, 0, 0, 1, 0>> >>,
      << <<0, 1, 0, 0, 0, -1>> >>,
      << <<1, 0, 0, 0, 0, -1>> >>,
      << <<1, 0, 0, 0, 1, 0>>, <<0, 1, 0, 0, 0, -1>> >> }

\* two oblique frames in units of 1/31: i and j are orthogonal and of
\* length 1, the closest plane is coronal for the first and sagittal for
\* the second
ObliquePlanes ==
    { << <<21, 18, 14, 6, 14, -27>> >>,
      << <<-18, 21, 14, -14, 6, -27>> >> }

\* one voxel or MaxShape voxels along each axis
Shapes == {1, MaxShape} \X {1, MaxShape} \X {1, MaxShape}

PixDims == {<<1, 1, 1>>, <<1, 2, MaxPix>>, <<MaxPix, 1, 2>>}

Offsets == {<<0, 0, 0>>, <<-3, 5, 7>>}

\* the deltas the constructor accepts for the slice normal k and spacing s
Deltas3(k, s) == {NoDelta, Scaled(k, s), Scaled(k, -s), <<0, 0, 0>>}

\* im is an image the constructor accepts
Constructed(shapes, planes, offsets) ==
    \E shape \in shapes, pixdim \in PixDims, orient \in planes, offset \in offsets :
       \E delta \in Deltas3(NewImage(shape, pixdim, orient, offset, NoDelta).i,
                            pixdim[3]) \cup
                    Deltas3(normk(NewImage(shape, pixdim, orient, offset, NoDelta).i,
                                  NewImage(shape, pixdim, orient, offset, NoDelta).j),
                            pixdim[3]) :
          /\ checkSliceDir(normk(NewImage(shape, pixdim, orient, offset, NoDelta).i,
                                 NewImage(shape, pixdim, orient, offset, NoDelta).j),
                           delta) # 2
          /\ im = NewImage(shape, pixdim, orient, offset, delta)

InitImage ==
    /\ Constructed(Shapes, Planes \cup ObliquePlanes, Offsets)
    /\ imOp = "new"
    /\ imRet = <<>>
    /\ ScanIdle
    /\ ReadIdle
    /\ GiplIdle
    /\ MatchIdle
    /\ NiiIdle
    /\ CsaIdle

SpecImage == InitImage /\ [][ImageNext]_vars

(***************************************************************************)
(* Specification SpecReorient: flips and reorientations of images of three *)
(* shapes at one offset, in the same frames.                               *)
(***************************************************************************)
ReShapes == {<<1, 1, 1>>, <<1, MaxShape, MaxShape>>, <<MaxShape, MaxShape, 1>>}

InitReorient ==
    /\ Constructed(ReShapes, Planes \cup ObliquePlanes, {<<-3, 5, 7>>})
    /\ imOp = "new"
    /\ imRet = <<>>
    /\ ScanIdle
    /\ ReadIdle
    /\ GiplIdle
    /\ MatchIdle
    /\ NiiIdle
    /\ CsaIdle

SpecReorient == InitReorient /\ [][ReorientNext]_vars

(***************************************************************************)
(* Properties of the flips                                                 *)
(***************************************************************************)
Labels == { <<"i">>, <<"j">>, <<"k">>, <<"-", "i">>, <<"-", "j">>, <<"-", "k">> }

\* the labels a and b name the same axis with opposite signs
Opposite(a, b) ==
    /\ a \in Labels
    /\ b \in Labels
    /\ a[Len(a)] = b[Len(b)]
    /\ Len(a) # Len(b)

\* what a flip of the grid axis x (1: flipH, 2: flipV) with unit vector u
\* does: the axis label changes sign, the offset moves to the other end of
\* the axis, the voxel array is reversed along it, and nothing else changes
Flipped(x, u) ==
    /\ Opposite(im.axes[x], im'.axes[x])
    /\ \A y \in (1..3) \ {x} : im'.axes[y] = im.axes[y]
    /\ im'.offset = Plus(im.offset, Scaled(u, (im.data.shape[x] - 1) * im.pixdim[x]))
    /\ im'.data.shape = im.data.shape
    /\ \A v \in Indices(im.data.shape) :
          im'.data.vox[v] = im.data.vox[[v EXCEPT ![x] = im.data.shape[x] - 1 - v[x]]]
    /\ im'.pixdim = im.pixdim
    /\ im'.delta = im.delta
    /\ im'.mixed = im.mixed

\* C11: a single flipV (flipH) flips the sign of axes[1] (axes[0]), moves
\* the offset along j (i) by the field of view, negates j (i), reverses the
\* voxel array along that axis, and leaves pixdim, the other unit vector,
\* delta and the other two axes entries as they were.
C11_FlipChangesOneAxis ==
    [][ /\ imOp' = "flipV" =>
              /\ Flipped(2, im.j)
              /\ im'.j = Neg(im.j)
              /\ im'.i = im.i
        /\ imOp' = "flipH" =>
              /\ Flipped(1, im.i)
              /\ im'.i = Neg(im.i)
              /\ im'.j = im.j ]_vars

\* a sagittal image of two rows was flipped vertically
C11_Witness ==
    /\ imOp = "flipV"
    /\ im.axes = << <<"i">>, <<"-", "j">>, <<"k">> >>
    /\ im.j = <<0, 0, 1>>
    /\ im.data.shape[2] = 2
    /\ im.data.vox[<<0, 0, 0>>] = <<0, 1, 0>>
    /\ im.offset # <<0, 0, 0>>

(***************************************************************************)
(* Properties of reOrient                                                  *)
(***************************************************************************)
\* what a step of reOrient(new) from an image of orientation old does but
\* for the orientation it ends in: True, and a delta of normk * pixdim[2]
\* along the slice direction, for coronal or sagittal to axial; True and
\* no change for old = new; False and no change for every other pair
ReOrientStep(old, new) ==
    /\ old \in {"Coronal", "Sagittal"} /\ new = "Axial" =>
          /\ imRet'[2] = "True"
          /\ im'.delta = Scaled(normk(im'.i, im'.j), im'.pixdim[3])
          /\ checkSliceDir(normk(im'.i, im'.j), im'.delta) = 1
    /\ old = new => imRet'[2] = "True" /\ im' = im
    /\ old # new /\ ~(old \in {"Coronal", "Sagittal"} /\ new = "Axial") =>
          imRet'[2] = "False" /\ im' = im

\* C25: reOrient('Axial') on a coronal or sagittal image returns True and
\* leaves an image whose findOrient() is 'Axial', whose delta is normk *
\* pixdim[2] and whose checkSliceDir() is +1, whatever the slice direction
\* was; for old = new it returns True and changes nothing; for every other
\* pair it returns False and changes nothing.
C25_ReOrientEndsAxial ==
    [][ imOp' = "reOrient" =>
          /\ ReOrientStep(findOrient(im), imRet'[1])
          /\ findOrient(im) \in {"Coronal", "Sagittal"} /\ imRet'[1] = "Axial" =>
                findOrient(im') = "Axial" ]_vars

\* what does hold: all of it but the orientation the image ends in, which
\* is 'Axial' when i x j of the image before the call simplifies to +y
\* (coronal) or -x (sagittal), as it does for the planes along the axes
ReOrient_AxialIfNormalSimplifies ==
    [][ imOp' = "reOrient" =>
          /\ ReOrientStep(findOrient(im), imRet'[1])
          /\ findOrient(im) = "Coronal" /\ imRet'[1] = "Axial"
                /\ simplify(normk(im.i, im.j)) = <<0, 1, 0>> =>
                findOrient(im') = "Axial"
          /\ findOrient(im) = "Sagittal" /\ imRet'[1] = "Axial"
                /\ simplify(normk(im.i, im.j)) = <<-1, 0, 0>> =>
                findOrient(im') = "Axial" ]_vars

\* a coronal or sagittal image along the axes, stacked against i x j, was
\* reoriented and is axial
ReOrient_AxisPlaneReached ==
    /\ imOp = "reOrient"
    /\ imRet = <<"Axial", "True">>
    /\ findOrient(im) = "Axial"
    /\ im.axes # << <<"i">>, <<"j">>, <<"k">> >>
    /\ im.data.shape # <<1, 1, 1>>

\* the last character of a label
Letter(a) == a[Len(a)]

\* delta is a negative multiple of i x j
AntiParallel(img) ==
    /\ img.delta # NoDelta
    /\ Cross(normk(img.i, img.j), img.delta) = <<0, 0, 0>>
    /\ Dot3(normk(img.i, img.j), img.delta) < 0

\* C26: after any sequence of flipH, flipV and reOrient calls axes is a
\* triple of labels out of i, j, k, -i, -j, -k that holds each of the
\* letters i, j, k once (never a doubled sign); a new image has the axes
\* i, j, k, or i, j, -k when delta is anti-parallel to i x j.
C26_AxesSignedPermutation ==
    imOp # "idle" =>
       /\ Len(im.axes) = 3
       /\ \A x \in 1..3 : im.axes[x] \in Labels
       /\ {Letter(im.axes[x]) : x \in 1..3} = {"i", "j", "k"}
       /\ imOp = "new" =>
             im.axes = IF AntiParallel(im) THEN << <<"i">>, <<"j">>, <<"-", "k">> >>
                       ELSE << <<"i">>, <<"j">>, <<"k">> >>

\* a sagittal image stacked against i x j was reoriented and then flipped
\* both ways
C26_Witness ==
    /\ imOp \in {"flipH", "flipV"}
    /\ imRet = <<"Axial", "True">>
    /\ im.axes = << <<"-", "k">>, <<"-", "i">>, <<"-", "j">> >>
    /\ AntiParallel(im)

(***************************************************************************)
(* match.py: the name matcher.  A configuration value is a sequence of     *)
(* one-character strings.  The configuration of the model has one alias    *)
(* without pattern and type options, so every series reaches the range     *)
(* checks; mtConf maps the range options the alias has to their texts.     *)
(* A series of mtDcm is [study, day, ser]: its study, the study date in    *)
(* days and its series number (the study time is the same everywhere).     *)
(***************************************************************************)
DigitChars == {"1", "3"}

IsDigits(s) == Len(s) > 0 /\ \A c \in DOMAIN s : s[c] \in DigitChars

RECURSIVE NatOf(_)
NatOf(s) ==
    IF s = <<>> THEN 0
    ELSE 10 * NatOf(SubSeq(s, 1, Len(s) - 1)) + (IF s[Len(s)] = "1" THEN 1 ELSE 3)

\* Python int(elt) of a text over digits, "-" and ":": an optional sign and
\* at least one digit, anything else is a ValueError
IsInt(s) == IsDigits(s) \/ (Len(s) > 1 /\ s[1] = "-" /\ IsDigits(Tail(s)))

IntOf(s) == IF s[1] = "-" THEN 0 - NatOf(Tail(s)) ELSE NatOf(s)

\* an endpoint of a range: None or an integer
NoneV == [none |-> TRUE, v |-> 0]

Num(k) == [none |-> FALSE, v |-> k]

\* parseRange.toNumeric, lines 43-47 (for a text int() accepts)
toNumeric(elt) == IF elt = <<>> THEN NoneV ELSE Num(IntOf(elt))

\* Python s.split(sep)
RECURSIVE Split(_, _)
Split(s, sep) ==
    IF \A c \in DOMAIN s : s[c] # sep THEN <<s>>
    ELSE <<SubSeq(s, 1, Min({c \in DOMAIN s : s[c] = sep}) - 1)>>
         \o Split(SubSeq(s, Min({c \in DOMAIN s : s[c] = sep}) + 1, Len(s)), sep)

\* match.py parseRange, lines 38-56: err is the exception it leaves with
parseRange(text) ==
    IF \E c \in DOMAIN text : text[c] = "-"
    THEN IF \E q \in DOMAIN Split(text, ":") :
               /\ Split(text, ":")[q] # <<>>
               /\ ~IsInt(Split(text, ":")[q])
         THEN [err |-> "ValueError", rng |-> <<>>]
         ELSE [err |-> "",
               rng |-> [q \in DOMAIN Split(text, ":") |-> toNumeric(Split(text, ":")[q])]]
    ELSE IF IsInt(text)
         THEN [err |-> "", rng |-> <<Num(IntOf(text)), Num(IntOf(text))>>]
         ELSE [err |-> "ValueError", rng |-> <<>>]

RangeFields == {"days", "study", "count", "series"}

MatchError(type) == [type |-> type, reason |-> "", masked |-> ""]

\* NameMatcher.__init__ with _buildPatterns, lines 60-121: the range options
\* are parsed; an exception of parseRange leaves the constructor
NameMatcher ==
    /\ mtPc = "new"
    /\ IF \E f \in DOMAIN mtConf : parseRange(mtConf[f]).err # ""
       THEN /\ mtPc' = "raised"
            /\ mtErr' = MatchError("ValueError")
            /\ UNCHANGED mtPatterns
       ELSE /\ mtPc' = "built"
            /\ mtPatterns' = [rng |-> [f \in DOMAIN mtConf |-> parseRange(mtConf[f]).rng],
                              matched |-> 0, counted |-> 0]
            /\ UNCHANGED mtErr
    /\ UNCHANGED <<mtConf, mtDcm, mtMatches, scanVars, readVars, giplVars,
                   imgVars, niiVars, csaVars>>

\* the two tests of one range, lines 226-229 (233-236, 245-248, 255-258):
\* upper is the index of the endpoint the second test compares with.  In
\* Python 2 every integer is greater than None.
RangeTest(rng, value, upper) ==
    IF ~rng[1].none /\ value < rng[1].v THEN "continue"
    ELSE IF Len(rng) < 2 THEN "IndexError"
    ELSE IF ~rng[2].none /\ (rng[upper].none \/ value > rng[upper].v) THEN "continue"
    ELSE "pass"

TestIfPresent(p, f, value, upper, before) ==
    IF before = "pass" /\ f \in DOMAIN p.rng THEN RangeTest(p.rng[f], value, upper)
    ELSE before

\* lines 223-258 for one series: the outcome of the tests in the order days,
\* study, count, series
AfterDays(p, age) == TestIfPresent(p, "days", age, 1, "pass")

AfterStudy(p, age, sc) == TestIfPresent(p, "study", sc, 1, AfterDays(p, age))

AfterCount(p, age, sc) ==
    IF AfterStudy(p, age, sc) = "pass" /\ "count" \in DOMAIN p.rng
    THEN RangeTest(p.rng["count"], p.matched, 2)
    ELSE AfterStudy(p, age, sc)

AfterSeries(p, age, sc, ser) ==
    TestIfPresent(p, "series", ser, 1, AfterCount(p, age, sc))

\* lines 239-250
OffsetCount(p) ==
    IF "count" \in DOMAIN p.rng /\ ~p.rng["count"][1].none
    THEN p.matched - p.rng["count"][1].v
    ELSE p.matched

\* lines 201-270 from position q of the sorted list on; s holds the
\* pattern's counters, self.matches, study_count and last_study
RECURSIVE MatchFrom(_, _, _, _)
MatchFrom(dcm, ord, q, s) ==
    IF q > Len(ord) THEN s
    ELSE LET e   == dcm[ord[q]]
             sc  == IF e.study # s.last THEN s.sc + 1 ELSE s.sc
             age == e.day - dcm[ord[1]].day
             out == AfterSeries(s.p, age, sc, e.ser)
             hit == AfterStudy(s.p, age, sc) = "pass"
             p1  == [s.p EXCEPT !.matched = IF hit THEN @ + 1 ELSE @,
                                !.counted = IF out = "pass" THEN @ + 1 ELSE @]
         IN IF out = "IndexError"
            THEN [s EXCEPT !.p = p1, !.sc = sc, !.last = e.study, !.err = "IndexError"]
            ELSE MatchFrom(dcm, ord, q + 1,
                           [s EXCEPT !.p = p1, !.sc = sc, !.last = e.study,
                                     !.matches = IF out = "pass"
                                                 THEN Put(@, ord[q], OffsetCount(s.p))
                                                 ELSE @])

\* stdate + sttime and fixser(series_no) as one sort key (series numbers
\* stay below SerBase)
SerBase == 10

SortKey(e) == e.day * SerBase + e.ser

\* findMatches, lines 155-270; mtMatches maps the list positions of the
\* matched series to their offset_count
findMatches ==
    /\ mtPc = "built"
    /\ \E ord \in SortedOrders(DOMAIN mtDcm, [q \in DOMAIN mtDcm |-> SortKey(mtDcm[q])]) :
         LET r == MatchFrom(mtDcm, ord, 1,
                            [p |-> mtPatterns, matches |-> Empty, sc |-> 0,
                             last |-> mtDcm[ord[1]].study, err |-> ""])
         IN /\ mtPatterns' = r.p
            /\ mtMatches' = r.matches
            /\ mtErr' = IF r.err = "" THEN mtErr ELSE MatchError(r.err)
            /\ mtPc' = IF r.err = "" THEN "matched" ELSE "raised"
    /\ UNCHANGED <<mtConf, mtDcm, scanVars, readVars, giplVars, imgVars, niiVars,
                   csaVars>>

MatchNext ==
    \/ NameMatcher
    \/ findMatches

(***************************************************************************)
(* Specification SpecMatch: an alias with one range option whose text has  *)
(* up to MaxText characters out of 1, 3, - and :, matched against one or   *)
(* two series of up to MaxStudies studies; study s is dated day 2(s - 1).  *)
(***************************************************************************)
MaxText == 4

MaxStudies == 2

MaxSer == 3

Texts == SeqsUpTo(DigitChars \cup {"-", ":"}, MaxText)

SeriesOfModel ==
    {[study |-> s, day |-> 2 * (s - 1), ser |-> k] : s \in 1..MaxStudies, k \in 1..MaxSer}

SeriesLists ==
    {<<a>> : a \in SeriesOfModel}
       \cup {q \in SeriesOfModel \X SeriesOfModel : q[1] # q[2]}

InitMatch ==
    /\ \E f \in RangeFields : \E text \in Texts : mtConf = (f :> text)
    /\ mtDcm \in SeriesLists
    /\ mtPatterns = Nil
    /\ mtMatches = Nil
    /\ mtErr = NoError
    /\ mtPc = "new"
    /\ ScanIdle
    /\ ReadIdle
    /\ GiplIdle
    /\ ImageIdle
    /\ NiiIdle
    /\ CsaIdle

SpecMatch == InitMatch /\ [][MatchNext]_vars

(***************************************************************************)
(* Properties of the range options                                         *)
(***************************************************************************)
\* the position of the dash of a text a-b, a- or -b (a and b digits)
DashOf(text) ==
    CHOOSE c \in DOMAIN text : text[c] = "-"

Endpoint(s) == IF s = <<>> THEN NoneV ELSE Num(NatOf(s))

\* the texts "a-b", "a-", "-b" and "a"
DashForm(text) ==
    /\ Len(text) > 1
    /\ Cardinality({c \in DOMAIN text : text[c] = "-"}) = 1
    /\ \A c \in DOMAIN text : text[c] \in DigitChars \cup {"-"}

\* the range [a, b] such a text stands for
RangeOf(text) ==
    IF IsDigits(text) THEN <<Num(NatOf(text)), Num(NatOf(text))>>
    ELSE <<Endpoint(SubSeq(text, 1, DashOf(text) - 1)),
           Endpoint(SubSeq(text, DashOf(text) + 1, Len(text)))>>

\* the value of series q the range option f is compared with: days since
\* the earliest study, studies before its own, matches before it, and its
\* series number (the alias has no other option, every series matches)
ValueOf(f, q) ==
    IF f = "days" THEN mtDcm[q].day - Min({mtDcm[m].day : m \in DOMAIN mtDcm})
    ELSE IF f = "study"
    THEN Cardinality({mtDcm[m].study : m \in {x \in DOMAIN mtDcm :
                                                 mtDcm[x].day < mtDcm[q].day}})
    ELSE IF f = "count"
    THEN Cardinality({m \in DOMAIN mtDcm : SortKey(mtDcm[m]) < SortKey(mtDcm[q])})
    ELSE mtDcm[q].ser

Within(rng, value) ==
    /\ rng[1].none \/ rng[1].v <= value
    /\ rng[2].none \/ value <= rng[2].v

\* C17: the texts a-b, a-, -b and a are accepted and parsed to [a, b] with
\* None for an open endpoint, and findMatches keeps a series under a range
\* [lo, hi] of days, study, series or count iff lo <= value <= hi.
C17_RangesParsedAndInclusive ==
    \A f \in DOMAIN mtConf :
       /\ (mtPc # "new" /\ (DashForm(mtConf[f]) \/ IsDigits(mtConf[f]))) =>
             /\ mtErr = NoError
             /\ mtPatterns.rng[f] = RangeOf(mtConf[f])
       /\ (mtPc = "matched" /\ Len(mtPatterns.rng[f]) = 2) =>
             \A q \in DOMAIN mtDcm :
                q \in DOMAIN mtMatches <=> Within(mtPatterns.rng[f], ValueOf(f, q))

\* what does hold of the texts: a single integer a gives [a, a]; a-b and a-
\* leave the constructor with a ValueError; -b is read as the integer -b and
\* gives the one-element list [-b], with which findMatches raises IndexError
Range_OnlySingleIntegerParses ==
    \A f \in DOMAIN mtConf :
       mtPc # "new" =>
          /\ IsDigits(mtConf[f]) =>
                /\ mtErr = NoError
                /\ mtPatterns.rng[f] = RangeOf(mtConf[f])
          /\ (DashForm(mtConf[f]) /\ mtConf[f][1] # "-") =>
                /\ mtPc = "raised"
                /\ mtErr = MatchError("ValueError")
          /\ (DashForm(mtConf[f]) /\ mtConf[f][1] = "-") =>
                /\ mtPatterns.rng[f] = <<Num(0 - NatOf(Tail(mtConf[f])))>>
                /\ mtPc = "raised" => mtErr = MatchError("IndexError")
                /\ mtPc # "matched"

\* what does hold of a two-element range [lo, hi]: count is tested against
\* both endpoints; days, study and series are tested against lo twice, so
\* with hi given a series passes only if its value equals lo
Range_UpperTestUsesLowerEndpoint ==
    \A f \in DOMAIN mtConf :
       (mtPc = "matched" /\ Len(mtPatterns.rng[f]) >= 2) =>
          \A q \in DOMAIN mtDcm :
             q \in DOMAIN mtMatches <=>
                IF f = "count" \/ mtPatterns.rng[f][2].none
                THEN Within(mtPatterns.rng[f], ValueOf(f, q))
                ELSE /\ ~mtPatterns.rng[f][1].none
                     /\ ValueOf(f, q) = mtPatterns.rng[f][1].v

(***************************************************************************)
(* nii.py: NiiWriter.  niW is the writer (RawWriter's type, data shape and *)
(* byte order with NiiWriter's fields), niFile the bytes of its file.  A   *)
(* description is a sequence of character codes.                           *)
(***************************************************************************)
Int16 == 4

\* NiftiType.Map[Int16][3]
BitpixInt16 == 16

\* file.seek(addr); file.write(b): writing past the end extends the file
WriteAt(file, addr, b) ==
    [q \in 1..Max({Len(file), addr + Len(b)}) |->
        IF q > addr /\ q <= addr + Len(b) THEN b[q - addr] ELSE file[q]]

\* the bytes of a list of packed elements of width bytes each
Flat(items, width) ==
    [q \in 1..(width * Len(items)) |->
        items[((q - 1) \div width) + 1][((q - 1) % width) + 1]]

\* NiiWriter.writeVal, lines 44-68: items are the packed elements of data,
\* all of which are written; if there are fewer than count (n), the packed
\* padding value pad follows n - len(data) times
NiiWriteVal(file, addr, count, items, pad) ==
    WriteAt(file, addr, Flat(items \o [q \in 1..(count - Len(items)) |-> pad], Len(pad)))

Pack16s(vals) == [q \in DOMAIN vals |-> Enc16(vals[q], "<")]

PackFs(vals) == [q \in DOMAIN vals |-> PackF(vals[q], "<")]

Chars(s) == [q \in DOMAIN s |-> <<s[q]>>]

MagicN1 == <<110, 43, 49, 0>>      \* "n+1\x00"

\* NiiWriter.__init__, lines 28-39, with the fields a caller sets afterwards
NewNii(descrip, shape, pixdim, qform, qdata, qfac, one_padding) ==
    [type |-> Int16, shape |-> shape, order |-> "<", offset |-> 352,
     pixdim |-> pixdim, qfac |-> qfac, qform |-> qform, sform |-> 0,
     descrip |-> descrip, qdata |-> qdata, one_padding |-> one_padding]

\* lines 72-91
HeaderDims(w) ==
    NiiWriteVal(NiiWriteVal(NiiWriteVal(NiiWriteVal(NiiWriteVal(NiiWriteVal(NiiWriteVal(
        [q \in 1..348 |-> 0],
        0, 1, <<Enc32(348, "<")>>, <<0, 0, 0, 0>>),
        40, 1, Pack16s(<<Len(w.shape)>>), <<0, 0>>),
        42, 7, Pack16s(w.shape), Enc16(IF w.one_padding THEN 1 ELSE 0, "<")),
        70, 1, Pack16s(<<w.type>>), <<0, 0>>),
        72, 1, Pack16s(<<BitpixInt16>>), <<0, 0>>),
        80, 7, PackFs(w.pixdim), PackF(IF w.one_padding THEN One ELSE Zero, "<")),
        108, 7, PackFs(<<Dy(352, 0)>>), <<0, 0, 0, 0>>)

\* lines 93-97
HeaderScale(w) ==
    NiiWriteVal(
        IF w.one_padding
        THEN NiiWriteVal(NiiWriteVal(HeaderDims(w),
                 112, 1, PackFs(<<One>>), <<0, 0, 0, 0>>),
                 116, 1, PackFs(<<Zero>>), <<0, 0, 0, 0>>)
        ELSE HeaderDims(w),
        123, 1, << <<10>> >>, <<0>>)

\* lines 99-106
HeaderOf(w) ==
    NiiWriteVal(NiiWriteVal(NiiWriteVal(NiiWriteVal(NiiWriteVal(NiiWriteVal(
        HeaderScale(w),
        344, 4, Chars(MagicN1), <<0>>),
        148, 80, Chars(w.descrip), <<0>>),
        252, 1, Pack16s(<<w.qform>>), <<0, 0>>),
        254, 1, Pack16s(<<w.sform>>), <<0, 0>>),
        256, 6, PackFs(w.qdata), <<0, 0, 0, 0>>),
        76, 1, PackFs(<<w.qfac>>), <<0, 0, 0, 0>>)

writeHeader ==
    /\ niPc = "new"
    /\ niFile' = HeaderOf(niW)
    /\ niPc' = "written"
    /\ UNCHANGED <<niW, scanVars, readVars, giplVars, imgVars, matchVars, csaVars>>

\* set_one_padding, lines 41-42
set_one_padding ==
    /\ niPc = "new"
    /\ \E value \in BOOLEAN :
          /\ value # niW.one_padding
          /\ niW' = [niW EXCEPT !.one_padding = value]
    /\ UNCHANGED <<niFile, niPc, scanVars, readVars, giplVars, imgVars, matchVars,
                   csaVars>>

NiiNext ==
    \/ set_one_padding
    \/ writeHeader

(***************************************************************************)
(* Specification SpecNii: writers with a description of 0..MaxDescrip      *)
(* characters, a volume of two or three dimensions, and the quaternion     *)
(* fields left at their defaults or set.                                   *)
(***************************************************************************)
MaxDescrip == 200

Descrips == {[q \in 1..len |-> 65 + (q % 26)] : len \in 0..MaxDescrip}

InitNii ==
    /\ \E descrip \in Descrips :
       \E shape \in {<<2, 3>>, <<4, 3, 2>>} :
       \E set \in BOOLEAN :
          niW = NewNii(descrip, shape,
                       IF set THEN <<Dy(2, 0), Dy(2, 0), Dy(3, 0)>> ELSE <<One, One, One>>,
                       IF set THEN 1 ELSE 0,
                       IF set THEN <<Zero, One, Zero, Dy(-5, 1), Dy(7, 0), Zero>>
                       ELSE <<Zero, Zero, Zero, Zero, Zero, Zero>>,
                       IF set THEN Dy(-1, 0) ELSE One,
                       FALSE)
    /\ niFile = <<>>
    /\ niPc = "new"
    /\ ScanIdle
    /\ ReadIdle
    /\ GiplIdle
    /\ ImageIdle
    /\ MatchIdle
    /\ CsaIdle

SpecNii == InitNii /\ [][NiiNext]_vars

(***************************************************************************)
(* Properties of the NIfTI header                                          *)
(***************************************************************************)
\* the bytes b stand at offset addr of the file
Holds(addr, b) ==
    /\ Len(niFile) >= addr + Len(b)
    /\ SubSeq(niFile, addr + 1, addr + Len(b)) = b

Padded(b, len, pad) == Flat(b \o [q \in 1..(len - Len(b)) |-> pad], Len(pad))

\* sizeof_hdr, dim, datatype, bitpix, pixdim with qfac, vox_offset, the
\* qform and sform codes and qdata hold the values of the writer
FieldsHold ==
    /\ Holds(0, Enc32(348, "<"))
    /\ Holds(40, Enc16(Len(niW.shape), "<"))
    /\ Holds(42, Padded(Pack16s(niW.shape), 7,
                        Enc16(IF niW.one_padding THEN 1 ELSE 0, "<")))
    /\ Holds(70, Enc16(Int16, "<"))
    /\ Holds(72, Enc16(BitpixInt16, "<"))
    /\ Holds(76, PackF(niW.qfac, "<"))
    /\ Holds(80, Padded(PackFs(niW.pixdim), 7,
                        PackF(IF niW.one_padding THEN One ELSE Zero, "<")))
    /\ Holds(108, PackF(Dy(352, 0), "<"))
    /\ Holds(252, Enc16(niW.qform, "<"))
    /\ Holds(254, Enc16(niW.sform, "<"))
    /\ Holds(256, Flat(PackFs(niW.qdata), 4))

\* the first 80 characters of the description, zero-padded
Truncated(descrip) ==
    [q \in 1..80 |-> IF q <= Len(descrip) THEN descrip[q] ELSE 0]

\* C18: after writeHeader the description occupies exactly the bytes
\* [148, 228), truncated if longer, and for every description length the
\* other header fields and the magic at 344 hold their values.
C18_DescripTruncatedTo80 ==
    niPc = "written" =>
       /\ Holds(148, Truncated(niW.descrip))
       /\ Holds(228, [q \in 1..24 |-> 0])
       /\ FieldsHold
       /\ Holds(344, MagicN1)
       /\ Len(niFile) = 348

\* what does hold: a description of at most 80 characters is stored as
\* specified
Nii_HeaderHoldsUpTo80 ==
    (niPc = "written" /\ Len(niW.descrip) <= 80) =>
       /\ Holds(148, Truncated(niW.descrip))
       /\ Holds(228, [q \in 1..24 |-> 0])
       /\ FieldsHold
       /\ Holds(344, MagicN1)
       /\ Len(niFile) = 348

\* what does hold: the description is written whole from offset 148 on;
\* the fields written after it (252..280) replace its bytes there, the
\* magic written before it is lost once the description exceeds 196
\* characters, and beyond 200 characters the header outgrows 348 bytes
Nii_DescripWrittenWhole ==
    niPc = "written" =>
       /\ \A q \in DOMAIN niW.descrip :
             (148 + q <= 252 \/ 148 + q > 280) => niFile[148 + q] = niW.descrip[q]
       /\ FieldsHold
       /\ Holds(344, MagicN1) <=> Len(niW.descrip) <= 196
       /\ Len(niFile) = Max({348, 148 + Len(niW.descrip)})

(***************************************************************************)
(* dicom.py: the Siemens CSA header, convertCSA2 and getCSA.  Byte strings *)
(* are sequences of byte values; a field name is such a sequence too.      *)
(***************************************************************************)
\* Python s[0:hi] for any integer hi
SliceTo(s, hi) ==
    IF hi >= Len(s) THEN s
    ELSE IF hi >= 0 THEN SubSeq(s, 1, hi)
    ELSE IF Len(s) + hi > 0 THEN SubSeq(s, 1, Len(s) + hi)
    ELSE <<>>

\* Python s[lo:] for any integer lo
SliceFrom(s, lo) ==
    IF lo >= Len(s) THEN <<>>
    ELSE IF lo >= 0 THEN SubSeq(s, lo + 1, Len(s))
    ELSE IF Len(s) + lo > 0 THEN SubSeq(s, Len(s) + lo + 1, Len(s))
    ELSE s

\* Python s.find("\0"): the 0-based index of the first NUL, -1 if none
FindNul(s) ==
    IF \E q \in DOMAIN s : s[q] = 0 THEN Min({q \in DOMAIN s : s[q] = 0}) - 1
    ELSE 0 - 1

\* Python s.rstrip(c) for the one byte c
RECURSIVE RStripByte(_, _)
RStripByte(s, c) ==
    IF s # <<>> /\ s[Len(s)] = c THEN RStripByte(SubSeq(s, 1, Len(s) - 1), c) ELSE s

Word(s, q) == S32LE(SubSeq(s, 4 * q - 3, 4 * q))

\* convertCSA2 lines 428-441: ni items from str on; [err, items, rest]
RECURSIVE ItemsFrom(_, _, _)
ItemsFrom(str, ni, items) ==
    IF ni <= 0 THEN [err |-> "", items |-> items, rest |-> str]
    ELSE IF Len(str) < 16 THEN [err |-> "struct.error", items |-> items, rest |-> str]
    ELSE LET subhdr == <<Word(str, 1), Word(str, 2), Word(str, 3), Word(str, 4)>>
             sublen == subhdr[2]
             val    == SliceTo(SliceFrom(str, 16), sublen)
             nrem   == (4 - (sublen % 4)) % 4
         IN ItemsFrom(SliceFrom(SliceFrom(str, 16), sublen + nrem), ni - 1,
                      Append(items,
                             [subhdr |-> subhdr,
                              val |-> RStripByte(SliceTo(val, FindNul(val)), 32)]))

\* convertCSA2 lines 398-441: n fields from str on; csa[name] of a later
\* field replaces that of an earlier one of the same name
RECURSIVE FieldsFrom(_, _, _)
FieldsFrom(str, count, csa) ==
    IF count = 0 THEN [err |-> "", csa |-> csa]
    ELSE IF Len(str) < 84 THEN [err |-> "struct.error", csa |-> csa]
    ELSE LET name == SliceTo(SubSeq(str, 1, 64), FindNul(SubSeq(str, 1, 64)))
             ni   == S32LE(SubSeq(str, 77, 80))
             its  == ItemsFrom(SliceFrom(str, 84), ni, <<>>)
         IN IF its.err # "" THEN [err |-> its.err, csa |-> csa]
            ELSE FieldsFrom(its.rest, count - 1,
                            Put(csa, name,
                                [vm |-> S32LE(SubSeq(str, 65, 68)),
                                 vr |-> RStripByte(SubSeq(str, 69, 72), 0),
                                 syngodt |-> S32LE(SubSeq(str, 73, 76)),
                                 nitems |-> ni,
                                 items |-> its.items]))

SV10 == <<83, 86, 49, 48>>

\* convertCSA2, lines 381-443
convertCSA2(str) ==
    IF Len(str) < 4 THEN [err |-> "struct.error", csa |-> Empty]
    ELSE IF SubSeq(str, 1, 4) # SV10 THEN [err |-> "", csa |-> Empty]
    ELSE IF Len(str) < 16 THEN [err |-> "struct.error", csa |-> Empty]
    ELSE FieldsFrom(SliceFrom(str, 16), U32LE(SubSeq(str, 9, 12)), Empty)

\* getCSA line 331: the values of the items whose first subheader word is
\* positive
RECURSIVE LiveValues(_)
LiveValues(items) ==
    IF items = <<>> THEN <<>>
    ELSE (IF Head(items).subhdr[1] > 0 THEN <<Head(items).val>> ELSE <<>>)
         \o LiveValues(Tail(items))

CsaError(type) == [type |-> type, reason |-> "", masked |-> ""]

\* getCSA("image", key), lines 317-334; the element (0029,1010) is present
getCSA(key) ==
    /\ csPc \in {"new", "called"}
    /\ csPc' = IF csPc = "new" THEN "called" ELSE "done"
    /\ IF csData = Nil /\ convertCSA2(csBlob).err # ""
       THEN /\ csErr' = CsaError(convertCSA2(csBlob).err)
            /\ UNCHANGED <<csData, csOut>>
       ELSE /\ csData' = IF csData = Nil THEN convertCSA2(csBlob).csa ELSE csData
            /\ csOut' = [key |-> key,
                         vals |-> IF key \in DOMAIN csData'
                                  THEN LiveValues(csData'[key].items) ELSE <<>>]
            /\ csErr' = NoError
    /\ UNCHANGED <<csSrc, csBlob, scanVars, readVars, giplVars, imgVars, matchVars,
                   niiVars>>

CsaKeys == {<<65>>, <<66>>}

CsaNext == \E key \in CsaKeys : getCSA(key)

(***************************************************************************)
(* Specification SpecCsa: blobs with the magic SV10 or another one, laid   *)
(* out from a field A with up to MaxItems items and, optionally, a field B *)
(* with one item.  An item has a first subheader word a of 0 or 1, a       *)
(* length b of 0..MaxValue, and b bytes rounded up to a multiple of 4 out  *)
(* of NUL, space and the letter A.                                         *)
(***************************************************************************)
MaxValue == 4

MaxItems == 2

UpTo4(b) == 4 * ((b + 3) \div 4)

\* the bytes of one item: the subheader (a, b, b, 77) and the value area
ItemBytes(it) ==
    Enc32(it.a, "<") \o Enc32(it.b, "<") \o Enc32(it.b, "<") \o Enc32(77, "<") \o it.area

\* the bytes of one field: name, vm, vr, syngodt, number of items, 77, items
FieldBytes(fld) ==
    fld.name \o [q \in 1..(64 - Len(fld.name)) |-> 0]
       \o Enc32(Len(fld.items), "<") \o <<73, 83, 0, 0>> \o Enc32(6, "<")
       \o Enc32(Len(fld.items), "<") \o Enc32(77, "<")
       \o Concat([q \in DOMAIN fld.items |-> ItemBytes(fld.items[q])])

BlobOf(magic, flds) ==
    magic \o <<4, 3, 2, 1>> \o Enc32(Len(flds), "<") \o Enc32(77, "<")
       \o Concat([q \in DOMAIN flds |-> FieldBytes(flds[q])])

ValueBytes == {0, 32, 65}

CsaItems ==
    {[a |-> a, b |-> b, area |-> area] :
        a \in {0, 1}, b \in 0..MaxValue,
        area \in UNION {[1..len -> ValueBytes] : len \in {0} \cup {UpTo4(x) : x \in 1..MaxValue}}}

FirstItems == {it \in CsaItems : Len(it.area) = UpTo4(it.b)}

\* the items that may follow the first
NextItem == [a |-> 1, b |-> 2, area |-> <<65, 65, 0, 0>>]

ItemLists ==
    {<<>>} \cup {<<it>> : it \in FirstItems}
           \cup (IF MaxItems >= 2 THEN {<<it, NextItem>> : it \in FirstItems} ELSE {})

FieldB == [name |-> <<66>>, items |-> <<[a |-> 1, b |-> 1, area |-> <<65, 0, 0, 0>>]>>]

InitCsa ==
    /\ \E its \in ItemLists : \E more \in BOOLEAN :
          csSrc = <<[name |-> <<65>>, items |-> its]>> \o (IF more THEN <<FieldB>> ELSE <<>>)
    /\ \E magic \in {SV10, DICM} : csBlob = BlobOf(magic, csSrc)
    /\ csData = Nil
    /\ csOut = <<>>
    /\ csErr = NoError
    /\ csPc = "new"
    /\ ScanIdle
    /\ ReadIdle
    /\ GiplIdle
    /\ ImageIdle
    /\ MatchIdle
    /\ NiiIdle

SpecCsa == InitCsa /\ [][CsaNext]_vars

(***************************************************************************)
(* Properties of the CSA header                                            *)
(***************************************************************************)
\* the first b bytes of the value area, cut at the first NUL if there is
\* one, without trailing spaces
CutAtNul(it) ==
    RStripByte(IF FindNul(SubSeq(it.area, 1, it.b)) >= 0
               THEN SubSeq(it.area, 1, FindNul(SubSeq(it.area, 1, it.b)))
               ELSE SubSeq(it.area, 1, it.b), 32)

\* the same, except that a value without NUL loses its last byte
CutAtNulOrLast(it) ==
    RStripByte(IF FindNul(SubSeq(it.area, 1, it.b)) >= 0
               THEN SubSeq(it.area, 1, FindNul(SubSeq(it.area, 1, it.b)))
               ELSE SubSeq(it.area, 1, it.b - 1), 32)

IsSV10 == SubSeq(csBlob, 1, 4) = SV10

\* the field of the blob with the name key
SrcField(key) == csSrc[CHOOSE q \in DOMAIN csSrc : csSrc[q].name = key]

\* C24: every item's stored value is its first b bytes cut at the first
\* NUL (whole without NUL) and right-trimmed of spaces, the items are found
\* at their places (b rounded up to a multiple of 4 apart), getCSA returns
\* the values of the items with a > 0 in order, and a blob without the
\* magic SV10 gives an empty result and no error.
C24_ValuesCutAtNul ==
    csPc # "new" =>
       /\ csErr = NoError
       /\ ~IsSV10 => csData = Empty /\ csOut.vals = <<>>
       /\ IsSV10 =>
             /\ DOMAIN csData = {csSrc[q].name : q \in DOMAIN csSrc}
             /\ \A q \in DOMAIN csSrc :
                   LET got == csData[csSrc[q].name].items
                   IN /\ Len(got) = Len(csSrc[q].items)
                      /\ \A m \in DOMAIN got :
                            /\ got[m].subhdr[1] = csSrc[q].items[m].a
                            /\ got[m].subhdr[2] = csSrc[q].items[m].b
                            /\ got[m].val = CutAtNul(csSrc[q].items[m])
             /\ csOut.vals =
                   IF \E q \in DOMAIN csSrc : csSrc[q].name = csOut.key
                   THEN LiveValues([m \in DOMAIN SrcField(csOut.key).items |->
                                      [subhdr |-> <<SrcField(csOut.key).items[m].a>>,
                                       val |-> CutAtNul(SrcField(csOut.key).items[m])]])
                   ELSE <<>>

\* what does hold: the same, with a value of b > 0 bytes that holds no NUL
\* stored without its last byte
Csa_ValueWithoutNulLosesLastByte ==
    csPc # "new" =>
       /\ csErr = NoError
       /\ ~IsSV10 => csData = Empty /\ csOut.vals = <<>>
       /\ IsSV10 =>
             /\ DOMAIN csData = {csSrc[q].name : q \in DOMAIN csSrc}
             /\ \A q \in DOMAIN csSrc :
                   LET got == csData[csSrc[q].name].items
                   IN /\ Len(got) = Len(csSrc[q].items)
                      /\ \A m \in DOMAIN got :
                            /\ got[m].subhdr[1] = csSrc[q].items[m].a
                            /\ got[m].subhdr[2] = csSrc[q].items[m].b
                            /\ got[m].val = CutAtNulOrLast(csSrc[q].items[m])
             /\ csOut.vals =
                   IF \E q \in DOMAIN csSrc : csSrc[q].name = csOut.key
                   THEN LiveValues([m \in DOMAIN SrcField(csOut.key).items |->
                                      [subhdr |-> <<SrcField(csOut.key).items[m].a>>,
                                       val |-> CutAtNulOrLast(SrcField(csOut.key).items[m])]])
                   ELSE <<>>
====
